---- MODULE Spec2Model ----
(***************************************************************************)
(* Query-planning and aggregation-execution pipeline of nba-ai-analyst:    *)
(* the router guardrail (src/agents/router_agent.py), the operation        *)
(* dispatcher (src/execution/executor.py) and the five aggregate query     *)
(* builders (src/tools/compute/*.py), and the planner's deterministic      *)
(* helpers (src/agents/planner_agent.py).                                  *)
(*                                                                         *)
(* The specifications of this module:                                      *)
(*   Spec         router -> dispatcher pipeline, one loop iteration of     *)
(*                execute_ops per step;                                    *)
(*   BuilderSpec  one builder call per step, arguments drawn from bounded  *)
(*                sets, the query text kept as a token sequence so that    *)
(*                interpolation and parameter binding stay distinguishable;*)
(*   PlannerSpec  one call of _resolve_players or                          *)
(*                _resolve_season_from_text per step;                      *)
(*   RenderSpec   one rendering of a row list to a markdown table per step;*)
(*   StoreSpec    concurrent requests stepping through the lazily created  *)
(*                connection handle and schema cache of a dataset;         *)
(*   PickSpec     one call of team_capsheets._pick_cap_column per step,    *)
(*                over the schemas the store may report.                   *)
(***************************************************************************)
EXTENDS Integers, Sequences, FiniteSets, TLC

VARIABLES
    pc,            \* pipeline position: idle, route_error, routed, running, done, raised
    plan_dataset,  \* plan["dataset"] handed to RouterAgent.invoke
    proposed,      \* route.ops as returned by the routing model (before the post-check)
    from_router,   \* TRUE when the op list under execution came out of RouterAgent.invoke
    ops,           \* ops["ops"]: the list execute_ops iterates over
    done_n,        \* number of list entries the for-loop has finished
    results,       \* execute_ops' results list
    invocations,   \* log of tool.invoke calls: position in ops, tool, what the call did
    call,          \* BuilderSpec: the last builder call and its outcome
    planner,       \* PlannerSpec: the last planner helper call and its result
    render,        \* RenderSpec: the last rendering of a row list
    threads,       \* StoreSpec: per request thread, its position, dataset and local handle
    schema_cache,  \* StoreSpec: per dataset, the module-level column cache (_SCHEMA_COLS, _COLS)
    con_cache,     \* StoreSpec: per dataset, the module-level connection handle (0 = None)
    probes,        \* StoreSpec: per dataset, how many schema probes have been run
    created,       \* StoreSpec: per dataset, how many connection handles have been created
    pick           \* PickSpec: the last cap-column selection over a store schema

vars == <<pc, plan_dataset, proposed, from_router, ops, done_n, results, invocations, call,
          planner, render, threads, schema_cache, con_cache, probes, created, pick>>

\* the module-level state of the stores and the requests using it
storeVars == <<threads, schema_cache, con_cache, probes, created>>

\* the state outside the pipeline and the builders
sideVars == <<planner, render, storeVars, pick>>

pipeVars == <<pc, plan_dataset, proposed, from_router, ops, done_n, results, invocations>>

(***************************************************************************)
(* Bounds                                                                  *)
(***************************************************************************)
\* longest op list handed to execute_ops directly
MaxOps == 3
\* longest op list the routing model proposes
MaxRoute == 2
\* request threads running at the same time
NThreads == 2

\* datasets whose modules keep a schema cache next to the connection handle
\* (team_capsheets.py has the same code as these two)
StoreDatasets == {"player_contracts", "team_stats"}

RECURSIVE SeqsUpTo(_, _)
SeqsUpTo(S, n) ==
    IF n = 0 THEN {<<>>}
    ELSE LET shorter == SeqsUpTo(S, n - 1)
         IN  shorter \cup {Append(s, x) : s \in {t \in shorter : Len(t) = n - 1}, x \in S}

Range(s) == {s[j] : j \in 1..Len(s)}

(***************************************************************************)
(* Tool registry, alias map, router tables                                 *)
(***************************************************************************)
\* names of the tools in ALL_TOOLS, in registry order
ALL_TOOLS ==
    << "player_contracts_tool", "player_stats_tool", "team_capsheets_tool",
       "team_picks_tool", "team_stats_tool",
       "contracts_aggregate", "player_stats_aggregate_tool",
       "team_capsheets_aggregate", "team_picks_aggregate_tool",
       "team_stats_aggregate_tool" >>

\* build_tool_index: the keys of {t.name: t for t in tools}
build_tool_index == Range(ALL_TOOLS)

\* mutant: the two *_aggregate_tool redirections are missing
ALIAS_MAP_short ==
    [n \in {"player_stats_tool", "team_stats_tool"} |->
        CASE n = "player_stats_tool" -> "player_stats_aggregate"
          [] n = "team_stats_tool"   -> "team_stats_aggregate"]

ALIAS_MAP ==
    [n \in {"player_stats_tool", "team_stats_tool",
            "contracts_aggregate_tool", "team_capsheets_aggregate_tool"} |->
        CASE n = "player_stats_tool"             -> "player_stats_aggregate"
          [] n = "team_stats_tool"               -> "team_stats_aggregate"
          [] n = "contracts_aggregate_tool"      -> "contracts_aggregate"
          [] n = "team_capsheets_aggregate_tool" -> "team_capsheets_aggregate"]

\* RouterAgent.dataset_to_tool
dataset_to_tool ==
    [d \in {"player_stats", "team_stats", "player_contracts", "team_picks", "team_capsheets"} |->
        CASE d = "player_stats"     -> "player_stats_aggregate_tool"
          [] d = "team_stats"       -> "team_stats_aggregate_tool"
          [] d = "player_contracts" -> "contracts_aggregate_tool"
          [] d = "team_picks"       -> "team_picks_aggregate_tool"
          [] d = "team_capsheets"   -> "team_capsheets_aggregate_tool"]

\* RouterAgent.allowed_tools = sorted({t.name for t in ALL_TOOLS})
allowed_tools ==
    << "contracts_aggregate", "player_contracts_tool", "player_stats_aggregate_tool",
       "player_stats_tool", "team_capsheets_aggregate", "team_capsheets_tool",
       "team_picks_aggregate_tool", "team_picks_tool", "team_stats_aggregate_tool",
       "team_stats_tool" >>

\* absent value (Python None)
None == "<none>"

\* RouterAgent._fallback_tool
_fallback_tool ==
    IF "player_stats_aggregate_tool" \in Range(allowed_tools)
    THEN "player_stats_aggregate_tool"
    ELSE IF Len(allowed_tools) > 0 THEN allowed_tools[1] ELSE "unknown_tool"

\* suggested_tool of RouterAgent.invoke: the dataset's tool, or None
suggested_tool(dataset) ==
    IF dataset \in DOMAIN dataset_to_tool THEN dataset_to_tool[dataset] ELSE None

\* the post-check of RouterAgent.invoke on one op: a name outside allowed_tools is
\* replaced by suggested_tool or _fallback_tool()
PostCheck(op, dataset) ==
    IF op.tool_name \notin Range(allowed_tools)
    THEN [op EXCEPT !.tool_name =
            IF suggested_tool(dataset) # None THEN suggested_tool(dataset) ELSE _fallback_tool]
    ELSE op

\* mutant: an empty route passes validation
_non_empty_ops_off(route) == TRUE

\* RoutePlan._non_empty_ops: TRUE when the route validates, FALSE when ValueError is raised
_non_empty_ops(route) == Len(route) > 0

(***************************************************************************)
(* Inputs                                                                  *)
(***************************************************************************)
\* plan["dataset"]: the five dataset keys, an absent dataset and an unknown one
Datasets == (DOMAIN dataset_to_tool) \cup {"", "nba_trivia"}

\* tool names an op may carry: every registered name, every alias key and target,
\* every dataset_to_tool value, and a name known nowhere
ToolNames ==
    build_tool_index \cup (DOMAIN ALIAS_MAP) \cup {ALIAS_MAP[n] : n \in DOMAIN ALIAS_MAP}
        \cup {dataset_to_tool[d] : d \in DOMAIN dataset_to_tool} \cup {"drop_tables"}

\* ToolOp records; an op whose kind is not tool_call never has its name read
OpRecords ==
    [op : {"tool_call"}, tool_name : ToolNames] \cup [op : {"sql"}, tool_name : {"drop_tables"}]

\* exceptions a tool may raise out of tool.invoke (subclasses of Exception)
ToolExceptions ==
    { [type |-> "ValidationError", msg |-> "agg must be avg|sum|min|max|count|median|pNN"],
      [type |-> "IOException",     msg |-> "No files found that match the pattern"] }

\* what tool.invoke does: returns a value or raises
ToolOutcomes == {[raised |-> FALSE, type |-> "", msg |-> ""]}
                    \cup {[raised |-> TRUE, type |-> e.type, msg |-> e.msg] : e \in ToolExceptions}

(***************************************************************************)
(* Dispatcher: src/execution/executor.py                                   *)
(***************************************************************************)
\* {"error": f"<what> '<arg>'"}
ErrorRecord(what, arg) ==
    [keys |-> {"error"}, tool |-> None, error |-> <<what, arg>>,
     output |-> [kind |-> "absent", type |-> "", msg |-> ""]]

\* {"tool": resolved_name, "output": out}
ToolRecord(name, out) ==
    [keys |-> {"tool", "output"}, tool |-> name, error |-> <<>>, output |-> out]

\* mutant: an unresolvable name falls through to the first registered tool
_resolve_tool_and_args_lenient(step) ==
    LET resolved_name == IF step.tool_name \in DOMAIN ALIAS_MAP
                         THEN ALIAS_MAP[step.tool_name] ELSE step.tool_name
    IN  IF resolved_name \notin build_tool_index
        THEN [tool |-> ALL_TOOLS[1], name |-> ALL_TOOLS[1]]
        ELSE [tool |-> resolved_name, name |-> resolved_name]

\* _resolve_tool_and_args: (tool or None, name reported back). The argument payload
\* is handed through to the tool and is not part of this model.
_resolve_tool_and_args(step) ==
    LET resolved_name == IF step.tool_name \in DOMAIN ALIAS_MAP
                         THEN ALIAS_MAP[step.tool_name] ELSE step.tool_name
    IN  IF resolved_name \notin build_tool_index
        THEN [tool |-> None, name |-> step.tool_name]
        ELSE [tool |-> resolved_name, name |-> resolved_name]

\* mutant: only validation errors are caught
TryInvoke_narrow(o) ==
    IF ~o.raised THEN [escapes |-> FALSE, out |-> [kind |-> "value", type |-> "", msg |-> ""]]
    ELSE IF o.type = "ValidationError"
         THEN [escapes |-> FALSE, out |-> [kind |-> "error", type |-> o.type, msg |-> o.msg]]
         ELSE [escapes |-> TRUE, out |-> [kind |-> "absent", type |-> "", msg |-> ""]]

\* try: out = tool.invoke(call_args) / except Exception as e: out = {"error": "<type>: <msg>"}
TryInvoke(o) ==
    IF ~o.raised THEN [escapes |-> FALSE, out |-> [kind |-> "value", type |-> "", msg |-> ""]]
    ELSE [escapes |-> FALSE, out |-> [kind |-> "error", type |-> o.type, msg |-> o.msg]]

\* mutant: an unsupported op is skipped without a record
UnsupportedResult_skip(res, step) == res

\* results.append({"error": f"Unsupported op type '{op}'"})
UnsupportedResult(res, step) == Append(res, ErrorRecord("Unsupported op type", step.op))

Init ==
    /\ pc = "idle"
    /\ plan_dataset = ""
    /\ proposed = <<>>
    /\ from_router = FALSE
    /\ ops = <<>>
    /\ done_n = 0
    /\ results = <<>>
    /\ invocations = <<>>
    /\ call = [builder |-> "<none>"]
    /\ planner = [fn |-> "<none>"]
    /\ render = [builder |-> "<none>"]
    /\ threads = [t \in 1..NThreads |-> [pc |-> "idle", ds |-> "<none>", con |-> 0, phase |-> "lookup"]]
    /\ schema_cache = [d \in StoreDatasets |-> "<none>"]
    /\ con_cache = [d \in StoreDatasets |-> 0]
    /\ probes = [d \in StoreDatasets |-> 0]
    /\ created = [d \in StoreDatasets |-> 0]
    /\ pick = [fn |-> "<none>"]

\* RouterAgent.invoke(plan): the routing model answers, RoutePlan validates, the
\* post-check rewrites names, route.dict() is returned
RouterInvoke ==
    /\ pc = "idle"
    /\ \E d \in Datasets, route \in SeqsUpTo(OpRecords, MaxRoute) :
        /\ plan_dataset' = d
        /\ proposed' = route
        /\ from_router' = TRUE
        /\ IF _non_empty_ops(route)
           THEN /\ ops' = [j \in 1..Len(route) |-> PostCheck(route[j], d)]
                /\ pc' = "routed"
           ELSE /\ ops' = <<>>
                /\ pc' = "route_error"
    /\ UNCHANGED <<done_n, results, invocations, call, sideVars>>

\* n_executor: execute_ops(state["ops"], ALL_TOOLS) on the router's list
ExecuteRouted ==
    /\ pc = "routed"
    /\ pc' = "running"
    /\ done_n' = 0
    /\ results' = <<>>
    /\ invocations' = <<>>
    /\ UNCHANGED <<plan_dataset, proposed, from_router, ops, call, sideVars>>

\* execute_ops called with an arbitrary op list
ExecuteDirect ==
    /\ pc = "idle"
    /\ \E l \in SeqsUpTo(OpRecords, MaxOps) : ops' = l
    /\ pc' = "running"
    /\ from_router' = FALSE
    /\ plan_dataset' = ""
    /\ proposed' = <<>>
    /\ done_n' = 0
    /\ results' = <<>>
    /\ invocations' = <<>>
    /\ UNCHANGED <<call, sideVars>>

\* loop body, first branch: step.get("op") != "tool_call"
StepUnsupported ==
    /\ pc = "running"
    /\ done_n < Len(ops)
    /\ LET step == ops[done_n + 1]
       IN  /\ step.op # "tool_call"
           /\ results' = UnsupportedResult(results, step)
    /\ done_n' = done_n + 1
    /\ UNCHANGED <<pc, plan_dataset, proposed, from_router, ops, invocations, call, sideVars>>

\* loop body, second branch: tool is None
StepUnknown ==
    /\ pc = "running"
    /\ done_n < Len(ops)
    /\ LET step == ops[done_n + 1]
       IN  /\ step.op = "tool_call"
           /\ _resolve_tool_and_args(step).tool = None
           /\ results' = Append(results, ErrorRecord("Unknown tool", step.tool_name))
    /\ done_n' = done_n + 1
    /\ UNCHANGED <<pc, plan_dataset, proposed, from_router, ops, invocations, call, sideVars>>

\* loop body, third branch: the tool is invoked inside try/except
StepInvoke ==
    /\ pc = "running"
    /\ done_n < Len(ops)
    /\ LET step == ops[done_n + 1]
           r    == _resolve_tool_and_args(step)
       IN  /\ step.op = "tool_call"
           /\ r.tool # None
           /\ \E o \in ToolOutcomes :
                /\ invocations' = Append(invocations,
                                         [pos |-> done_n + 1, tool |-> r.tool, outcome |-> o])
                /\ IF TryInvoke(o).escapes
                   THEN /\ pc' = "raised"
                        /\ UNCHANGED <<results, done_n>>
                   ELSE /\ results' = Append(results, ToolRecord(r.name, TryInvoke(o).out))
                        /\ done_n' = done_n + 1
                        /\ pc' = pc
    /\ UNCHANGED <<plan_dataset, proposed, from_router, ops, call, sideVars>>

\* return results
Return ==
    /\ pc = "running"
    /\ done_n = Len(ops)
    /\ pc' = "done"
    /\ UNCHANGED <<plan_dataset, proposed, from_router, ops, done_n, results, invocations, call, sideVars>>

\* the next question: the pipeline starts over
NextRequest ==
    /\ pc \in {"done", "route_error", "raised"}
    /\ pc' = "idle"
    /\ plan_dataset' = ""
    /\ proposed' = <<>>
    /\ from_router' = FALSE
    /\ ops' = <<>>
    /\ done_n' = 0
    /\ results' = <<>>
    /\ invocations' = <<>>
    /\ UNCHANGED <<call, sideVars>>

Next ==
    \/ RouterInvoke
    \/ ExecuteRouted
    \/ ExecuteDirect
    \/ StepUnsupported
    \/ StepUnknown
    \/ StepInvoke
    \/ Return
    \/ NextRequest

Spec == Init /\ [][Next]_vars

(***************************************************************************)
(* Aggregate query builders: src/tools/compute/*.py                        *)
(*                                                                         *)
(* A query text is a sequence of tokens. Fixed text of the f-string is a   *)
(* "sql" token, a "?" is a "qmark" token, and every {...} interpolation is *)
(* a token of its own: "ident" for a column or function name, "int" for an *)
(* integer literal, "frac" for the fraction N/100 and "str" for a quoted   *)
(* string literal. A bound parameter or filter value is a tagged value.    *)
(***************************************************************************)
\* most names in a players / teams list
MaxNames == 2
\* most entries in metrics
MaxMetrics == 2

Tok(kind, text, num) == [kind |-> kind, text |-> text, num |-> num]
S(text)   == Tok("sql", text, 0)
Q         == Tok("qmark", "?", 0)
Id(name)  == Tok("ident", name, 0)
IntLit(n) == Tok("int", "", n)
Frac(n)   == Tok("frac", "", n)
StrLit(x) == Tok("str", x, 0)

StrV(x) == [t |-> "str", s |-> x, n |-> 0]
IntV(n) == [t |-> "int", s |-> "", n |-> n]
NoneV   == [t |-> "none", s |-> "", n |-> 0]

\* Python truthiness of an Optional[int]: None and 0 are falsy
TruthyV(v) == (v.t = "int" /\ v.n # 0) \/ (v.t = "str" /\ v.s # "")
\* Python truthiness of an Optional[str]
TruthyS(x) == x # None /\ x # ""
\* an absent list or dict (None) and an empty one are both falsy everywhere the
\* builders read them; both are the empty sequence here
NoList == <<>>
TruthyL(l) == l # <<>>

RECURSIVE Flatten(_)
Flatten(ss) == IF ss = <<>> THEN <<>> ELSE Head(ss) \o Flatten(Tail(ss))

RECURSIVE JoinWith(_, _)
\* sep.join(parts) for token sequences
JoinWith(sep, parts) ==
    IF parts = <<>> THEN <<>>
    ELSE IF Len(parts) = 1 THEN parts[1]
    ELSE parts[1] \o <<sep>> \o JoinWith(sep, Tail(parts))

\* ",".join(["?"] * n)
Placeholders(n) == JoinWith(S(","), [j \in 1..n |-> <<Q>>])

\* " AND ".join(clauses) if clauses else "TRUE"
AndClauses(clauses) == IF clauses = <<>> THEN <<S("TRUE")>> ELSE JoinWith(S("AND"), clauses)

RECURSIVE Dedupe(_)
\* list(dict.fromkeys(l)): first occurrences, in order
Dedupe(l) ==
    IF l = <<>> THEN <<>>
    ELSE LET front == Dedupe(SubSeq(l, 1, Len(l) - 1))
             x     == l[Len(l)]
         IN  IF x \in Range(front) THEN front ELSE Append(front, x)

Prefixes(pool, n) == {SubSeq(pool, 1, m) : m \in 1..n}

(***************************************************************************)
(* Aggregation verbs. A verb is a string; what the code reads off it       *)
(* (lower(), upper(), startswith("p"), the text after the p) is tabulated. *)
(***************************************************************************)
NotInt == -1000

\* verb |-> <<lower(), lower().upper(), lower()[1:].isdigit(), int(lower()[1:]) or NotInt>>
VerbTable ==
    [v \in {"avg", "AVG", "sum", "min", "max", "count", "median", "p90", "p1", "p99",
            "p0", "p100", "p-5", "mode", "none", "pct", "COUNT"} |->
        CASE v = "avg"    -> <<"avg", "AVG", FALSE, NotInt>>
          [] v = "COUNT"  -> <<"count", "COUNT", FALSE, NotInt>>
          [] v = "AVG"    -> <<"avg", "AVG", FALSE, NotInt>>
          [] v = "sum"    -> <<"sum", "SUM", FALSE, NotInt>>
          [] v = "min"    -> <<"min", "MIN", FALSE, NotInt>>
          [] v = "max"    -> <<"max", "MAX", FALSE, NotInt>>
          [] v = "count"  -> <<"count", "COUNT", FALSE, NotInt>>
          [] v = "median" -> <<"median", "MEDIAN", FALSE, NotInt>>
          [] v = "p90"    -> <<"p90", "P90", TRUE, 90>>
          [] v = "p1"     -> <<"p1", "P1", TRUE, 1>>
          [] v = "p99"    -> <<"p99", "P99", TRUE, 99>>
          [] v = "p0"     -> <<"p0", "P0", TRUE, 0>>
          [] v = "p100"   -> <<"p100", "P100", TRUE, 100>>
          [] v = "p-5"    -> <<"p-5", "P-5", FALSE, -5>>
          [] v = "mode"   -> <<"mode", "MODE", FALSE, NotInt>>
          [] v = "none"   -> <<"none", "NONE", FALSE, NotInt>>
          [] v = "pct"    -> <<"pct", "PCT", FALSE, NotInt>>]

Lower(v)       == VerbTable[v][1]
Upper(v)       == VerbTable[v][2]
StartsWithP(v) == Lower(v) \in {"p90", "p1", "p99", "p0", "p100", "p-5", "pct"}
RestIsDigit(v) == VerbTable[v][3]
RestInt(v)     == VerbTable[v][4]

\* the verbs the argument sets below draw from
Verbs == {"avg", "AVG", "count", "median", "max", "p90", "p0", "p100", "mode", "none"}

\* the enumeration of the specification: max, min, sum, avg, count, median, p1..p99
InEnumeration(v) ==
    \/ Lower(v) \in {"max", "min", "sum", "avg", "count", "median"}
    \/ StartsWithP(v) /\ RestIsDigit(v) /\ RestInt(v) \in 1..99

(***************************************************************************)
(* Filters: an ordered mapping key -> value. A key "col__suf" is kept as   *)
(* its two parts, as k.split("__", 1) yields them; suf = None for a key    *)
(* without "__".                                                           *)
(***************************************************************************)
FKey(col, suf) == [col |-> col, suf |-> suf]

F_pos     == [key |-> FKey("pos", None),       val |-> StrV("PG")]
F_g_gte   == [key |-> FKey("g", "gte"),        val |-> IntV(50)]
F_like    == [key |-> FKey("details", "like"), val |-> StrV("Swap")]
F_age_ne  == [key |-> FKey("age", "ne"),       val |-> IntV(30)]
F_mp_none == [key |-> FKey("mp", "lt"),        val |-> NoneV]

\* the filter dicts the calls draw from: none, each single entry, and one of two
FilterMaps ==
    {<<>>, <<F_pos>>, <<F_g_gte>>, <<F_like>>, <<F_age_ne>>, <<F_mp_none>>, <<F_g_gte, F_pos>>}

OpSymbol(suf) ==
    CASE suf = "gte" -> ">=" [] suf = "lte" -> "<=" [] suf = "gt" -> ">"
      [] suf = "lt" -> "<" [] suf = "eq" -> "=" [] suf = "ne" -> "!="

FilterItems(f) == f

\* the outcome of one builder call
Rejected(b, a, err) ==
    [builder |-> b, args |-> a, status |-> err, built |-> FALSE, executed |-> FALSE,
     sql |-> <<>>, params |-> <<>>]
Ran(b, a, sql, params) ==
    [builder |-> b, args |-> a, status |-> "ok", built |-> TRUE, executed |-> TRUE,
     sql |-> sql, params |-> params]

PlayerPool == <<"Stephen Curry", "LeBron James", "Luka Doncic">>
NameLists(pool) == {NoList} \cup Prefixes(pool, MaxNames)
SeasonLabels == {None, "2026-27", "2031-32"}
CapValues == {NoneV, IntV(0), IntV(5)}

(***************************************************************************)
(* player_stats                                                            *)
(***************************************************************************)
PS_DEFAULT_SEASON == "2024-25"
PS_FROM == S("FROM read_parquet('data/parquet/player_stats.parquet') WHERE")

\* metric / metrics as the caller may give them
PS_MetricPool == <<"pts", "ast", "pts">>
MetricChoices(pool) ==
    {[metric |-> None, metrics |-> NoList], [metric |-> pool[1], metrics |-> NoList],
     [metric |-> "salary", metrics |-> NoList], [metric |-> "bogus", metrics |-> NoList],
     [metric |-> pool[2], metrics |-> <<pool[1]>>],
     [metric |-> None, metrics |-> <<pool[1], pool[2], pool[1]>>]}
        \cup {[metric |-> None, metrics |-> m] : m \in Prefixes(pool, MaxMetrics)}

PlayerStatsArgs ==
    [season : SeasonLabels, mm : MetricChoices(PS_MetricPool), agg : Verbs,
     group_by : {"none", "team"}, players : NameLists(PlayerPool),
     teams : {NoList, <<"Boston Celtics">>}, filters : FilterMaps, k : CapValues]

\* mutant: the metrics list is taken as given, repeats included
PS_coalesce_metrics_repeats(metric, metrics) ==
    IF TruthyL(metrics) THEN metrics
    ELSE IF TruthyS(metric) THEN <<metric>> ELSE <<>>

PS_coalesce_metrics(metric, metrics) ==
    IF TruthyL(metrics) THEN Dedupe(metrics)
    ELSE IF TruthyS(metric) THEN <<metric>> ELSE <<>>

PS_op_map == {"gte", "lte", "gt", "lt", "eq"}

RECURSIVE PS_filter_clauses(_)
PS_filter_clauses(items) ==
    IF items = <<>> THEN <<>>
    ELSE LET k == items[1].key
             rest == PS_filter_clauses(Tail(items))
         IN  IF k.suf # None
             THEN IF k.suf \in PS_op_map
                  THEN << <<Id(k.col), S(OpSymbol(k.suf)), Q>> >> \o rest
                  ELSE rest
             ELSE << <<Id(k.col), S("="), Q>> >> \o rest

\* player_stats._build_where
PS_build_where(a) ==
    AndClauses(
        (IF TruthyS(a.season) THEN << <<S("season ="), Q>> >> ELSE <<>>)
     \o (IF TruthyL(a.players)
         THEN << <<S("player IN (")>> \o Placeholders(Len(a.players)) \o <<S(")")>> >> ELSE <<>>)
     \o (IF TruthyL(a.teams)
         THEN << <<S("team IN (")>> \o Placeholders(Len(a.teams)) \o <<S(")")>> >> ELSE <<>>)
     \o PS_filter_clauses(FilterItems(a.filters)))

RECURSIVE FilterValues(_)
\* the loop of _build_params over filters: None values are skipped
FilterValues(items) ==
    IF items = <<>> THEN <<>>
    ELSE (IF items[1].val = NoneV THEN <<>> ELSE <<items[1].val>>) \o FilterValues(Tail(items))

StrVs(l) == [j \in 1..Len(l) |-> StrV(l[j])]

\* player_stats._build_params
PS_build_params(a) ==
       (IF TruthyS(a.season) THEN <<StrV(a.season)>> ELSE <<>>)
    \o (IF TruthyL(a.players) THEN StrVs(a.players) ELSE <<>>)
    \o (IF TruthyL(a.teams) THEN StrVs(a.teams) ELSE <<>>)
    \o FilterValues(FilterItems(a.filters))

\* player_stats._agg_expr
PS_agg_expr(col, agg) ==
    IF StartsWithP(agg) /\ RestInt(agg) # NotInt
    THEN <<S("quantile("), Id(col), S(","), Frac(RestInt(agg)), S(")")>>
    ELSE IF Lower(agg) = "count" THEN <<S("COUNT(*)")>>
    ELSE IF Lower(agg) = "median" THEN <<S("median("), Id(col), S(")")>>
    ELSE <<Id(Upper(agg)), S("("), Id(col), S(")")>>

\* ORDER BY value DESC LIMIT {int(k)} when k is truthy
LimitTail(k) == IF TruthyV(k) THEN <<S("ORDER BY value DESC LIMIT"), IntLit(k.n)>> ELSE <<>>

\* player_stats._build_sql
PS_build_sql(a) ==
    LET where_sql == PS_build_where(a)
        gb == a.group_by
        metrics == a.metrics
        games == S(", SUM(g) AS games_played")
    IN  IF Len(metrics) = 1 /\ metrics[1] = "row_count" /\ a.agg = "count"
        THEN IF gb = "none"
             THEN <<S("SELECT COUNT(*) AS row_count, SUM(g) AS games_played"), PS_FROM>>
                    \o where_sql
             ELSE <<S("SELECT"), Id(gb), S("AS"), Id(gb),
                    S(", COUNT(*) AS value, SUM(g) AS games_played"), PS_FROM>>
                    \o where_sql \o <<S("GROUP BY"), Id(gb)>> \o LimitTail(a.k)
        ELSE IF Len(metrics) > 1 /\ gb # "none"
        THEN LET sub(m) == <<S("SELECT"), Id(gb), S("AS group_key,")>> \o PS_agg_expr(m, a.agg)
                             \o <<S("AS value,"), StrLit(m), S("AS metric, SUM(g) AS games_played"),
                                  PS_FROM>> \o where_sql \o <<S("GROUP BY"), Id(gb)>>
                 union == JoinWith(S("UNION ALL"), [j \in 1..Len(metrics) |-> sub(metrics[j])])
             IN  IF TruthyV(a.k)
                 THEN <<S("SELECT * FROM (")>> \o union
                        \o <<S(") ORDER BY value DESC LIMIT"), IntLit(a.k.n)>>
                 ELSE union
        ELSE IF Len(metrics) > 1 /\ gb = "none"
        THEN <<S("SELECT")>>
               \o JoinWith(S(","), [j \in 1..Len(metrics) |->
                                      PS_agg_expr(metrics[j], a.agg) \o <<S("AS"), Id(metrics[j])>>])
               \o <<games, PS_FROM>> \o where_sql
        ELSE IF gb = "none"
        THEN <<S("SELECT")>> \o PS_agg_expr(metrics[1], a.agg) \o <<S("AS"), Id(metrics[1]), games,
               PS_FROM>> \o where_sql
        ELSE <<S("SELECT"), Id(gb), S("AS"), Id(gb), S(",")>> \o PS_agg_expr(metrics[1], a.agg)
               \o <<S("AS value"), games, PS_FROM>> \o where_sql \o <<S("GROUP BY"), Id(gb)>>
               \o LimitTail(a.k)

\* run_player_stats_op: the argument schema checks no verb, metric or grouping
run_player_stats_op(a0) ==
    LET season == IF TruthyS(a0.season) THEN a0.season ELSE PS_DEFAULT_SEASON
        agg == IF ~TruthyS(a0.mm.metric) /\ ~TruthyL(a0.mm.metrics) THEN "count" ELSE a0.agg
        coalesced == PS_coalesce_metrics(a0.mm.metric, a0.mm.metrics)
        metrics_list == IF coalesced = <<>> THEN <<"row_count">> ELSE coalesced
        a == [season |-> season, metrics |-> metrics_list, agg |-> agg, group_by |-> a0.group_by,
              players |-> a0.players, teams |-> a0.teams, filters |-> a0.filters, k |-> a0.k]
    IN  Ran("player_stats", a0, PS_build_sql(a), PS_build_params(a))

(***************************************************************************)
(* team_stats                                                              *)
(***************************************************************************)
TS_DEFAULT_SEASON == "2024-25"
TS_FROM == S("FROM read_parquet('data/parquet/team_stats.parquet') WHERE")

\* MANIFEST["tables"]["team_stats"]["columns"]: what _schema_cols() reads back
TS_schema_cols ==
    <<"team", "season", "g", "mp", "fg", "fga", "fg_pct", "three_p", "three_pa", "three_pct",
      "two_p", "two_pa", "two_pct", "ft", "fta", "ft_pct", "orb", "drb", "trb", "ast", "stl",
      "blk", "tov", "pf", "pts">>

\* _numeric_cols(): the schema without team, season, rk
TS_numeric_cols == Range(TS_schema_cols) \ {"team", "season", "rk"}

TS_MetricPool == <<"pts", "ast", "pts">>
TS_TeamPool == <<"Boston Celtics", "Denver Nuggets*", "OKC">>

\* t.endswith("*") and t + "*" on the team strings in use
EndsWithStar(t) == t \in {"Denver Nuggets*"}
AddStar(t) == CASE t = "Boston Celtics" -> "Boston Celtics*" [] t = "OKC" -> "OKC*"

TeamStatsArgs ==
    [season : SeasonLabels \cup {TS_DEFAULT_SEASON}, mm : MetricChoices(TS_MetricPool),
     agg : Verbs, group_by : {"none", "team"}, teams : NameLists(TS_TeamPool),
     filters : FilterMaps, k : CapValues, include_league_average : BOOLEAN]

\* mutant: the verb is lower-cased and passed on unchecked
TS_agg_ok_off(v) == [ok |-> TRUE, v |-> Lower(v)]

\* TeamStatsAggregateArgs._agg_ok
TS_agg_ok(v) ==
    IF Lower(v) \in {"avg", "sum", "min", "max", "count", "median"}
    THEN [ok |-> TRUE, v |-> Lower(v)]
    ELSE IF StartsWithP(v) /\ RestIsDigit(v) /\ 0 < RestInt(v) /\ RestInt(v) < 100
    THEN [ok |-> TRUE, v |-> Lower(v)]
    ELSE [ok |-> FALSE, v |-> v]

\* TeamStatsAggregateArgs._validate_metrics
TS_validate_metrics(metrics) ==
    IF ~TruthyL(metrics) THEN TRUE
    ELSE {m \in Range(metrics) : m \notin TS_numeric_cols} = {}

\* TeamStatsAggregateArgs._validate_metric
TS_validate_metric(metric) == ~(TruthyS(metric) /\ metric \notin TS_numeric_cols)

TS_coalesce_metrics(metric, metrics) ==
    IF TruthyL(metrics) THEN Dedupe(metrics)
    ELSE IF TruthyS(metric) THEN <<metric>> ELSE <<>>

\* team_stats._agg_expr
TS_agg_expr(col, agg) ==
    IF Lower(agg) = "count" THEN <<S("COUNT(*)")>>
    ELSE IF Lower(agg) = "median" THEN <<S("median("), Id(col), S(")")>>
    ELSE IF StartsWithP(agg)
    THEN <<S("quantile("), Id(col), S(","), Frac(RestInt(agg)), S(")")>>
    ELSE <<Id(Upper(agg)), S("("), Id(col), S(")")>>

RECURSIVE TS_expand(_)
\* every team, followed by its starred form unless it already ends with "*"
TS_expand(teams) ==
    IF teams = <<>> THEN <<>>
    ELSE (IF EndsWithStar(teams[1]) THEN <<teams[1]>> ELSE <<teams[1], AddStar(teams[1])>>)
            \o TS_expand(Tail(teams))

TS_op_map == {"gte", "lte", "gt", "lt", "eq", "ne"}

RECURSIVE FilterClauses(_, _)
\* the filter loop shared by team_stats, contracts and cap sheets: None values are
\* skipped, a key with a suffix outside op_map adds nothing
FilterClauses(items, op_map) ==
    IF items = <<>> THEN <<>>
    ELSE LET k == items[1].key
             rest == FilterClauses(Tail(items), op_map)
         IN  IF items[1].val = NoneV THEN rest
             ELSE IF k.suf # None
             THEN IF k.suf \in op_map
                  THEN << <<Id(k.col), S(OpSymbol(k.suf)), Q>> >> \o rest
                  ELSE rest
             ELSE << <<Id(k.col), S("="), Q>> >> \o rest

\* team_stats._build_where
TS_build_where(a) ==
    AndClauses(
        (IF TruthyS(a.season) THEN << <<S("season ="), Q>> >> ELSE <<>>)
     \o (IF TruthyL(a.teams)
         THEN << <<S("team IN (")>> \o Placeholders(Len(TS_expand(a.teams))) \o <<S(")")>> >>
         ELSE <<>>)
     \o (IF ~a.include_league_average THEN << <<S("team <> 'League Average'")>> >> ELSE <<>>)
     \o FilterClauses(FilterItems(a.filters), TS_op_map))

\* team_stats._build_params
TS_build_params(a) ==
       (IF TruthyS(a.season) THEN <<StrV(a.season)>> ELSE <<>>)
    \o (IF TruthyL(a.teams) THEN StrVs(TS_expand(a.teams)) ELSE <<>>)
    \o FilterValues(FilterItems(a.filters))

\* team_stats._build_sql
TS_build_sql(a) ==
    LET where_sql == TS_build_where(a)
        gb == a.group_by
        metrics == IF a.metrics = <<>> THEN <<"row_count">> ELSE a.metrics
        agg == IF a.metrics = <<>> THEN "count" ELSE a.agg
        grouped(expr, tail) ==
            <<S("SELECT team AS team,")>> \o expr \o tail \o <<TS_FROM>> \o where_sql
                \o <<S("GROUP BY team")>>
    IN  IF Len(metrics) = 1
        THEN IF metrics[1] = "row_count"
             THEN IF gb = "none"
                  THEN <<S("SELECT COUNT(*) AS row_count"), TS_FROM>> \o where_sql
                  ELSE grouped(<<S("COUNT(*)")>>, <<S("AS value")>>) \o LimitTail(a.k)
             ELSE IF gb = "none"
                  THEN <<S("SELECT")>> \o TS_agg_expr(metrics[1], agg)
                         \o <<S("AS"), Id(metrics[1]), TS_FROM>> \o where_sql
                  ELSE grouped(TS_agg_expr(metrics[1], agg), <<S("AS value")>>) \o LimitTail(a.k)
        ELSE IF gb = "none"
        THEN <<S("SELECT")>>
               \o JoinWith(S(","), [j \in 1..Len(metrics) |->
                                      TS_agg_expr(metrics[j], agg) \o <<S("AS"), Id(metrics[j])>>])
               \o <<TS_FROM>> \o where_sql
        ELSE LET union == JoinWith(S("UNION ALL"),
                            [j \in 1..Len(metrics) |->
                               grouped(TS_agg_expr(metrics[j], agg),
                                       <<S("AS value,"), StrLit(metrics[j]), S("AS metric")>>)])
             IN  IF TruthyV(a.k)
                 THEN <<S("SELECT * FROM (")>> \o union
                        \o <<S(") ORDER BY value DESC LIMIT"), IntLit(a.k.n)>>
                 ELSE union

\* run_team_stats_op: TeamStatsAggregateArgs(...) validates, then the query is
\* built, its parameters collected, and it is executed
run_team_stats_op(a0) ==
    IF ~(TS_validate_metric(a0.mm.metric) /\ TS_validate_metrics(a0.mm.metrics)
            /\ TS_agg_ok(a0.agg).ok)
    THEN Rejected("team_stats", a0, "ValidationError")
    ELSE LET a == [season |-> a0.season,
                   metrics |-> TS_coalesce_metrics(a0.mm.metric, a0.mm.metrics),
                   agg |-> TS_agg_ok(a0.agg).v, group_by |-> a0.group_by, teams |-> a0.teams,
                   filters |-> a0.filters, k |-> a0.k,
                   include_league_average |-> a0.include_league_average]
         IN  Ran("team_stats", a0, TS_build_sql(a), TS_build_params(a))

(***************************************************************************)
(* Season labels: what the builders read off a label                       *)
(***************************************************************************)
\* season.replace('-', '_')
SeasonSuffix(season) ==
    CASE season = "2026-27" -> "2026_27" [] season = "2031-32" -> "2031_32"
      [] season = "2024-25" -> "2024_25"

\* int(season.split("-")[0]) / _season_to_year
SeasonStartYear(season) ==
    CASE season = "2026-27" -> 2026 [] season = "2031-32" -> 2031 [] season = "2024-25" -> 2024

(***************************************************************************)
(* player_contracts                                                        *)
(***************************************************************************)
CT_FROM == S("FROM read_parquet('data/parquet/player_contracts.parquet') WHERE")

\* MANIFEST["tables"]["player_contracts"]["columns"]: what _schema_cols() reads back
CT_schema_cols ==
    <<"id", "name", "team", "salary_2025_26", "salary_2026_27", "salary_2027_28",
      "salary_2028_29", "salary_2029_30", "salary_2030_31", "total_guaranteed", "player_id",
      "note">>

\* sorted([c for c in cols if c.startswith("salary_")])
CT_salary_cols ==
    <<"salary_2025_26", "salary_2026_27", "salary_2027_28", "salary_2028_29",
      "salary_2029_30", "salary_2030_31">>

\* metric.startswith("salary_") on the metric strings in use
StartsWithSalary(m) == m \in Range(CT_salary_cols) \cup {"salary_2031_32"}

\* _season_to_salary_col: "salary_" + season.replace('-', '_')
_season_to_salary_col(season) ==
    CASE SeasonSuffix(season) = "2026_27" -> "salary_2026_27"
      [] SeasonSuffix(season) = "2031_32" -> "salary_2031_32"
      [] SeasonSuffix(season) = "2024_25" -> "salary_2024_25"

\* TEAM_NAME_TO_ABBR (src/capabilities/team_abbrev.py): lower-cased full name -> abbreviation
TEAM_NAME_TO_ABBR == [t \in {"boston celtics"} |-> "BOS"]

\* t.lower() on the team strings in use
LowerTeam(t) == CASE t = "Boston Celtics" -> "boston celtics" [] t = "OKC" -> "okc"

\* ContractsAggArgs._normalize_teams
CT_normalize_teams(teams) ==
    [j \in 1..Len(teams) |->
        IF LowerTeam(teams[j]) \in DOMAIN TEAM_NAME_TO_ABBR
        THEN TEAM_NAME_TO_ABBR[LowerTeam(teams[j])] ELSE teams[j]]

CT_TeamPool == <<"Boston Celtics", "OKC">>

\* metric = None stands for a call that passes no metric: the field default applies
ContractsArgs ==
    [season : SeasonLabels \cup {"2024-25"},
     metric : {None, "salary", "salary_2026_27", "total_guaranteed", "bogus"},
     agg : Verbs, group_by : {"none", "player", "team", "position"},
     players : NameLists(PlayerPool), teams : NameLists(CT_TeamPool),
     filters : FilterMaps, k : CapValues]

\* ContractsAggArgs._agg_ok
CT_agg_ok(v) ==
    IF Lower(v) \in {"max", "min", "sum", "avg", "count"}
    THEN [ok |-> TRUE, v |-> Lower(v)] ELSE [ok |-> FALSE, v |-> v]

\* ContractsAggArgs._group_ok
CT_group_ok(v) == v \in {"none", "player", "team"}

\* mutant: the generic metric falls back to the earliest salary column
CT_resolve_metric_earliest(a) ==
    IF StartsWithSalary(a.metric) THEN a.metric
    ELSE IF a.metric = "salary" /\ TruthyS(a.season)
            /\ _season_to_salary_col(a.season) \in Range(CT_schema_cols)
    THEN _season_to_salary_col(a.season)
    ELSE IF a.metric = "salary" /\ CT_salary_cols # <<>>
    THEN CT_salary_cols[1]
    ELSE a.metric

\* _resolve_metric
CT_resolve_metric(a) ==
    IF StartsWithSalary(a.metric) THEN a.metric
    ELSE IF a.metric = "salary" /\ TruthyS(a.season)
            /\ _season_to_salary_col(a.season) \in Range(CT_schema_cols)
    THEN _season_to_salary_col(a.season)
    ELSE IF a.metric = "salary" /\ CT_salary_cols # <<>>
    THEN CT_salary_cols[Len(CT_salary_cols)]
    ELSE a.metric

\* player_contracts._agg_expr
CT_agg_expr(metric, agg) ==
    IF agg = "count" THEN <<S("COUNT(*)")>> ELSE <<Id(Upper(agg)), S("("), Id(metric), S(")")>>

RECURSIVE FilterParams(_, _)
\* the values appended next to the clauses of FilterClauses
FilterParams(items, op_map) ==
    IF items = <<>> THEN <<>>
    ELSE LET k == items[1].key
             rest == FilterParams(Tail(items), op_map)
         IN  IF items[1].val = NoneV THEN rest
             ELSE IF k.suf # None /\ k.suf \notin op_map THEN rest
             ELSE <<items[1].val>> \o rest

\* mutant: the season is filtered on, as the stats builders do
CT_build_where_season(a) ==
    [sql |-> AndClauses(
                (IF TruthyS(a.season) THEN << <<S("season ="), Q>> >> ELSE <<>>)
             \o (IF TruthyL(a.players)
                 THEN << <<S("name IN (")>> \o Placeholders(Len(a.players)) \o <<S(")")>> >>
                 ELSE <<>>)
             \o (IF TruthyL(a.teams)
                 THEN << <<S("team IN (")>> \o Placeholders(Len(a.teams)) \o <<S(")")>> >>
                 ELSE <<>>)
             \o FilterClauses(FilterItems(a.filters), TS_op_map)),
     params |-> (IF TruthyS(a.season) THEN <<StrV(a.season)>> ELSE <<>>)
                  \o StrVs(a.players) \o StrVs(a.teams)
                  \o FilterParams(FilterItems(a.filters), TS_op_map)]

\* player_contracts._build_where: (where_sql, params)
CT_build_where(a) ==
    [sql |-> AndClauses(
                (IF TruthyL(a.players)
                 THEN << <<S("name IN (")>> \o Placeholders(Len(a.players)) \o <<S(")")>> >>
                 ELSE <<>>)
             \o (IF TruthyL(a.teams)
                 THEN << <<S("team IN (")>> \o Placeholders(Len(a.teams)) \o <<S(")")>> >>
                 ELSE <<>>)
             \o FilterClauses(FilterItems(a.filters), TS_op_map)),
     params |-> StrVs(a.players) \o StrVs(a.teams)
                  \o FilterParams(FilterItems(a.filters), TS_op_map)]

\* LIMIT {int(k)} when k is truthy
LimitOnly(k) == IF TruthyV(k) THEN <<S("LIMIT"), IntLit(k.n)>> ELSE <<>>

\* player_contracts._build_sql: (sql, params)
CT_build_sql(a0) ==
    LET metric == CT_resolve_metric(a0)
        gb == IF a0.group_by = "none" /\ Len(a0.players) > 1 THEN "player" ELSE a0.group_by
        w == CT_build_where(a0)
        agg_expr == CT_agg_expr(metric, a0.agg)
        gcol == IF gb = "player" THEN "name" ELSE gb
        select_extra == IF gb = "player" THEN S(", first(team) AS team, first(note) AS note")
                        ELSE S(", first(note) AS note")
    IN  IF gb = "none"
        THEN [sql |-> <<S("SELECT")>> \o agg_expr
                        \o <<S("AS value, first(name) AS name, first(team) AS team, first(note) AS note"),
                             CT_FROM>> \o w.sql,
              params |-> w.params]
        ELSE [sql |-> <<S("SELECT"), Id(gcol), S("AS"), Id(gb), S(",")>> \o agg_expr
                        \o <<S("AS value"), select_extra, CT_FROM>> \o w.sql
                        \o <<S("GROUP BY"), Id(gcol), S("ORDER BY value DESC")>> \o LimitOnly(a0.k),
              params |-> w.params]

\* run_contracts_agg
run_contracts_agg(a0) ==
    IF ~(CT_agg_ok(a0.agg).ok /\ CT_group_ok(a0.group_by))
    THEN Rejected("player_contracts", a0, "ValidationError")
    ELSE LET a == [a0 EXCEPT !.metric = IF a0.metric = None THEN "salary" ELSE a0.metric,
                             !.agg = CT_agg_ok(a0.agg).v,
                             !.teams = CT_normalize_teams(a0.teams)]
             q == CT_build_sql(a)
         IN  Ran("player_contracts", a0, q.sql, q.params)

(***************************************************************************)
(* team_capsheets                                                          *)
(***************************************************************************)
CAP_FROM == S("FROM read_parquet('data/parquet/team_capsheets.parquet') WHERE")

\* MANIFEST["tables"]["team_capsheets"]["columns"]: what _cols() reads back
CAP_cols ==
    <<"team", "cap_2025_26", "cap_2026_27", "cap_2027_28", "cap_2028_29", "cap_2029_30",
      "cap_2030_31">>

\* sorted([c for c in cols if c.startswith("cap_")])
CAP_cap_cols ==
    <<"cap_2025_26", "cap_2026_27", "cap_2027_28", "cap_2028_29", "cap_2029_30", "cap_2030_31">>

\* int(c.split("_")[1])
CapColYear(c) ==
    CASE c = "cap_2025_26" -> 2025 [] c = "cap_2026_27" -> 2026 [] c = "cap_2027_28" -> 2027
      [] c = "cap_2028_29" -> 2028 [] c = "cap_2029_30" -> 2029 [] c = "cap_2030_31" -> 2030

_CAP_SYNONYMS == {"cap", "salary", "salary_cap", "cap_space", "total_salary"}

\* team_capsheets._season_to_col: "cap_" + season.replace('-', '_')
_season_to_col(season) ==
    CASE SeasonSuffix(season) = "2026_27" -> "cap_2026_27"
      [] SeasonSuffix(season) = "2031_32" -> "cap_2031_32"
      [] SeasonSuffix(season) = "2024_25" -> "cap_2024_25"

Abs(x) == IF x < 0 THEN -x ELSE x

\* by_year.sort(); by_year[0][2]: least (distance, year), i.e. the nearest start
\* year, the earlier one on a tie
NearestCapCol(target) ==
    CHOOSE c \in Range(CAP_cap_cols) :
        \A d \in Range(CAP_cap_cols) :
            \/ Abs(CapColYear(c) - target) < Abs(CapColYear(d) - target)
            \/ /\ Abs(CapColYear(c) - target) = Abs(CapColYear(d) - target)
               /\ CapColYear(c) <= CapColYear(d)

\* metric.lower() on the metric strings in use
LowerMetric(m) == IF m = "Cap_Space" THEN "cap_space" ELSE m

\* _pick_cap_column: the column, or None when ValueError is raised
_pick_cap_column(season, metric) ==
    IF TruthyS(metric) /\ metric \in Range(CAP_cols) THEN metric
    ELSE LET base == IF TruthyS(metric) THEN LowerMetric(metric) ELSE "cap"
         IN  IF base \in _CAP_SYNONYMS
             THEN IF TruthyS(season) /\ _season_to_col(season) \in Range(CAP_cols)
                  THEN _season_to_col(season)
                  ELSE IF CAP_cap_cols # <<>>
                       THEN IF TruthyS(season) THEN NearestCapCol(SeasonStartYear(season))
                            ELSE CAP_cap_cols[Len(CAP_cap_cols)]
                       ELSE None
             ELSE None

CAP_TeamPool == <<"Boston Celtics", "OKC">>

TeamCapsheetsArgs ==
    [season : SeasonLabels \cup {"2024-25"}, metric : {None, "cap", "cap_2027_28", "Cap_Space", "bogus"},
     group_by : {"team", "none", "division"}, agg : Verbs, k : CapValues,
     teams : NameLists(CAP_TeamPool), filters : FilterMaps]

\* TeamCapsArgs._check_group
CAP_check_group(v) == v \in {"team", "none"}

\* TeamCapsArgs._check_agg
CAP_check_agg(v) ==
    IF Lower(v) \in {"max", "min", "avg", "sum", "count"}
    THEN [ok |-> TRUE, v |-> Lower(v)] ELSE [ok |-> FALSE, v |-> v]

\* mutant: the season is filtered on
CAP_build_where_season(a) ==
    [sql |-> AndClauses(
                (IF TruthyS(a.season) THEN << <<S("season ="), Q>> >> ELSE <<>>)
             \o (IF TruthyL(a.teams)
                 THEN << <<S("team IN (")>> \o Placeholders(Len(a.teams)) \o <<S(")")>> >>
                 ELSE <<>>)
             \o FilterClauses(FilterItems(a.filters), TS_op_map)),
     params |-> (IF TruthyS(a.season) THEN <<StrV(a.season)>> ELSE <<>>)
                  \o StrVs(a.teams) \o FilterParams(FilterItems(a.filters), TS_op_map)]

\* team_capsheets._build_where: (where_sql, params)
CAP_build_where(a) ==
    [sql |-> AndClauses(
                (IF TruthyL(a.teams)
                 THEN << <<S("team IN (")>> \o Placeholders(Len(a.teams)) \o <<S(")")>> >>
                 ELSE <<>>)
             \o FilterClauses(FilterItems(a.filters), TS_op_map)),
     params |-> StrVs(a.teams) \o FilterParams(FilterItems(a.filters), TS_op_map)]

\* run_team_capsheets
run_team_capsheets(a0) ==
    IF ~(CAP_check_group(a0.group_by) /\ CAP_check_agg(a0.agg).ok)
    THEN Rejected("team_capsheets", a0, "ValidationError")
    ELSE LET metric == IF a0.metric = None THEN "cap" ELSE a0.metric
             agg == CAP_check_agg(a0.agg).v
             cap_col == _pick_cap_column(a0.season, metric)
             w == CAP_build_where(a0)
         IN  IF cap_col = None THEN Rejected("team_capsheets", a0, "ValueError")
             ELSE IF a0.group_by = "team"
             THEN Ran("team_capsheets", a0,
                      <<S("SELECT team,"), Id(cap_col), S("AS value"), CAP_FROM>> \o w.sql
                         \o <<S("ORDER BY value DESC")>> \o LimitOnly(a0.k),
                      w.params)
             ELSE Ran("team_capsheets", a0,
                      <<S("SELECT")>>
                         \o (IF agg = "count" THEN <<S("COUNT(*)")>>
                             ELSE <<Id(Upper(agg)), S("("), Id(cap_col), S(")")>>)
                         \o <<S("AS value,"), StrLit(cap_col), S("AS metric_col")>>
                         \o (IF agg = "max"
                             THEN <<S(", (SELECT team FROM read_parquet('data/parquet/team_capsheets.parquet') ORDER BY"),
                                    Id(cap_col), S("DESC LIMIT 1) AS top_team")>>
                             ELSE <<>>)
                         \o <<CAP_FROM>> \o w.sql,
                      w.params)

(***************************************************************************)
(* team_picks                                                              *)
(***************************************************************************)
PK_FROM == S("FROM read_parquet('data/parquet/team_picks.parquet') WHERE")

_ALLOWED_GROUP_BY == {"none", "team", "year", "round"}
_ALLOWED_AGG == {"count", "none"}

\* _normalize_round on the round strings in use
_normalize_round(r) ==
    IF ~TruthyS(r) THEN None
    ELSE IF r \in {"1", "first", "First", "rd1"} THEN "First"
    ELSE IF r \in {"2", "second", "Second", "rd2"} THEN "Second"
    ELSE None

PK_TeamPool == <<"OKC", "Boston Celtics Future NBA Draft Picks">>

\* t.lower().endswith("future nba draft picks") and f"{t} Future NBA Draft Picks"
HasPicksSuffix(t) == t \in {"Boston Celtics Future NBA Draft Picks"}
AddPicksSuffix(t) == CASE t = "OKC" -> "OKC Future NBA Draft Picks"

\* the ways a call names its years: year, years, start_year, end_year
YearSpecs ==
    { [year |-> NoneV,      years |-> <<>>,           start_year |-> NoneV,      end_year |-> NoneV],
      [year |-> IntV(2027), years |-> <<>>,           start_year |-> NoneV,      end_year |-> NoneV],
      [year |-> NoneV,      years |-> <<2026, 2027>>, start_year |-> NoneV,      end_year |-> NoneV],
      [year |-> NoneV,      years |-> <<>>,           start_year |-> IntV(2026), end_year |-> NoneV],
      [year |-> NoneV,      years |-> <<>>,           start_year |-> IntV(2026), end_year |-> IntV(2028)] }

TeamPicksArgs ==
    [season : SeasonLabels, ys : YearSpecs, teams : NameLists(PK_TeamPool),
     pick_round : {None, "1", "third"}, agg : {"count", "none", "avg", "mode", "COUNT"},
     group_by : {"none", "team", "year", "round", "conference"}, k : CapValues,
     limit : {NoneV, IntV(10)}, filters : {<<>>, <<F_like>>, <<F_g_gte>>, <<F_g_gte, F_pos>>}]

\* TeamPicksAggregateArgs._validate_agg
PK_validate_agg(v) == v \in _ALLOWED_AGG

\* TeamPicksAggregateArgs._validate_group_by
PK_validate_group_by(v) == v \in _ALLOWED_GROUP_BY

\* f"%{like_val.lower()}%"
LikeV(x) == [t |-> "like", s |-> x, n |-> 0]

IntVs(l) == [j \in 1..Len(l) |-> IntV(l[j])]

\* _years_clause: (clauses, params); a season stands in for the year only when no
\* year, years, start_year or end_year is given
_years_clause(a) ==
    LET given == TruthyV(a.ys.year) \/ TruthyL(a.ys.years) \/ TruthyV(a.ys.start_year)
                    \/ TruthyV(a.ys.end_year)
        year == IF TruthyS(a.season) /\ ~given THEN IntV(SeasonStartYear(a.season))
                ELSE a.ys.year
    IN  IF TruthyL(a.ys.years)
        THEN [sql |-> <<S("pick_year IN (")>> \o Placeholders(Len(a.ys.years)) \o <<S(")")>>,
              params |-> IntVs(a.ys.years)]
        ELSE IF year # NoneV
        THEN [sql |-> <<S("pick_year ="), Q>>, params |-> <<year>>]
        ELSE [sql |-> JoinWith(S("AND"),
                        (IF a.ys.start_year # NoneV THEN << <<S("pick_year >="), Q>> >> ELSE <<>>)
                     \o (IF a.ys.end_year # NoneV THEN << <<S("pick_year <="), Q>> >> ELSE <<>>)),
              params |-> (IF a.ys.start_year # NoneV THEN <<a.ys.start_year>> ELSE <<>>)
                      \o (IF a.ys.end_year # NoneV THEN <<a.ys.end_year>> ELSE <<>>)]

\* filters.get("details__like")
DetailsLike(items) ==
    LET hits == {j \in 1..Len(items) : items[j].key = FKey("details", "like")}
    IN  IF hits = {} THEN NoneV ELSE items[CHOOSE j \in hits : TRUE].val

\* team_picks._where: (where_sql, params)
_where(a) ==
    LET yc == _years_clause(a)
        teams_full == [j \in 1..Len(a.teams) |->
                         IF HasPicksSuffix(a.teams[j]) THEN a.teams[j]
                         ELSE AddPicksSuffix(a.teams[j])]
        like_val == DetailsLike(FilterItems(a.filters))
    IN  [sql |-> AndClauses(
                    (IF yc.sql # <<>> THEN <<yc.sql>> ELSE <<>>)
                 \o (IF TruthyL(a.teams)
                     THEN << <<S("team IN (")>> \o Placeholders(Len(teams_full)) \o <<S(")")>> >>
                     ELSE <<>>)
                 \o (IF TruthyS(a.pick_round) THEN << <<S("pick_round ="), Q>> >> ELSE <<>>)
                 \o (IF TruthyV(like_val) THEN << <<S("LOWER(details) LIKE"), Q>> >> ELSE <<>>)),
         params |-> yc.params
                 \o (IF TruthyL(a.teams) THEN StrVs(teams_full) ELSE <<>>)
                 \o (IF TruthyS(a.pick_round) THEN <<StrV(a.pick_round)>> ELSE <<>>)
                 \o (IF TruthyV(like_val) THEN <<LikeV(like_val.s)>> ELSE <<>>)]

\* team_picks._build_sql: (sql, params)
PK_build_sql(a) ==
    LET w == _where(a)
        gb == a.group_by
    IN  IF a.agg = "none"
        THEN [sql |-> <<S("SELECT team, pick_year, pick_round, details"), PK_FROM>> \o w.sql
                        \o <<CASE gb = "team"  -> S("ORDER BY team, pick_year, pick_round")
                               [] gb = "year"  -> S("ORDER BY pick_year, team, pick_round")
                               [] gb = "round" -> S("ORDER BY pick_round, pick_year, team")
                               [] OTHER        -> S("ORDER BY pick_year, team, pick_round")>>
                        \o LimitOnly(a.limit),
              params |-> w.params]
        ELSE [sql |-> (CASE gb = "team" ->
                              <<S("SELECT team, COUNT(*) AS value"), PK_FROM>> \o w.sql
                                \o <<S("GROUP BY team ORDER BY value DESC")>>
                         [] gb = "year" ->
                              <<S("SELECT pick_year AS year, COUNT(*) AS value"), PK_FROM>> \o w.sql
                                \o <<S("GROUP BY pick_year ORDER BY value DESC")>>
                         [] gb = "round" ->
                              <<S("SELECT pick_round AS round, COUNT(*) AS value"), PK_FROM>> \o w.sql
                                \o <<S("GROUP BY pick_round ORDER BY value DESC")>>
                         [] OTHER ->
                              <<S("SELECT COUNT(*) AS value"), PK_FROM>> \o w.sql)
                        \o (IF gb \in {"team", "year", "round"} THEN LimitOnly(a.k) ELSE <<>>),
              params |-> w.params]

\* run_team_picks_agg
run_team_picks_agg(a0) ==
    IF ~(PK_validate_group_by(a0.group_by) /\ PK_validate_agg(a0.agg))
    THEN Rejected("team_picks", a0, "ValidationError")
    ELSE LET a == [a0 EXCEPT !.pick_round = _normalize_round(a0.pick_round)]
             q == PK_build_sql(a)
         IN  Ran("team_picks", a0, q.sql, q.params)

\* no builder call in progress
NoCall == [builder |-> None]

PlayerStatsCall ==
    /\ call = NoCall
    /\ \E a \in PlayerStatsArgs : call' = run_player_stats_op(a)
    /\ UNCHANGED <<pipeVars, sideVars>>

TeamStatsCall ==
    /\ call = NoCall
    /\ \E a \in TeamStatsArgs : call' = run_team_stats_op(a)
    /\ UNCHANGED <<pipeVars, sideVars>>

ContractsCall ==
    /\ call = NoCall
    /\ \E a \in ContractsArgs : call' = run_contracts_agg(a)
    /\ UNCHANGED <<pipeVars, sideVars>>

TeamCapsheetsCall ==
    /\ call = NoCall
    /\ \E a \in TeamCapsheetsArgs : call' = run_team_capsheets(a)
    /\ UNCHANGED <<pipeVars, sideVars>>

TeamPicksCall ==
    /\ call = NoCall
    /\ \E a \in TeamPicksArgs : call' = run_team_picks_agg(a)
    /\ UNCHANGED <<pipeVars, sideVars>>

\* the rendered text is handed back; the builder is ready for the next call
BuilderReturn ==
    /\ call # NoCall
    /\ call' = NoCall
    /\ UNCHANGED <<pipeVars, sideVars>>

BuilderNext ==
    \/ PlayerStatsCall
    \/ TeamStatsCall
    \/ ContractsCall
    \/ TeamCapsheetsCall
    \/ TeamPicksCall
    \/ BuilderReturn

BuilderSpec == Init /\ [][BuilderNext]_vars

(***************************************************************************)
(* Planner helpers: src/agents/planner_agent.py                            *)
(*                                                                         *)
(* A player name is a string; _canon is tabulated on the strings in use.   *)
(* Every string outside the table is already stripped, lower-case and      *)
(* single-spaced, so _canon leaves it as it is.                            *)
(***************************************************************************)
\* longest list of names handed to _resolve_players
MaxPlayers == 3
\* most words in a question text
MaxWords == 3

\* re.sub(r"\s+", " ", s.strip().lower()) on the strings that it changes
CanonTable ==
    [s \in {"Steph", " Stephen  Curry ", "KD", "LeBron James", "lebron  james", "Luka"} |->
        CASE s = "Steph"             -> "steph"
          [] s = " Stephen  Curry "  -> "stephen curry"
          [] s = "KD"                -> "kd"
          [] s = "LeBron James"      -> "lebron james"
          [] s = "lebron  james"     -> "lebron james"
          [] s = "Luka"              -> "luka"]

\* mutant: names are compared as written
_canon_raw(s) == s

\* _canon
_canon(s) == IF s \in DOMAIN CanonTable THEN CanonTable[s] ELSE s

\* MANIFEST["player_aliases"], in the dict's order
player_aliases ==
    << [canon |-> "stephen curry", alts |-> <<"steph", "steph curry", "chef curry", "curry">>],
       [canon |-> "kevin durant", alts |-> <<"kd", "durant", "easy money">>],
       [canon |-> "giannis antetokounmpo", alts |-> <<"giannis">>],
       [canon |-> "luka doncic", alts |-> <<"luka">>],
       [canon |-> "jimmy butler", alts |-> <<"jimmy", "himmy">>],
       [canon |-> "anthony davis", alts |-> <<"ad", "davis">> ] >>

\* the assignments rev[...] = canon of the two nested loops, in execution order
RECURSIVE RevAssignments(_)
RevAssignments(aliases) ==
    IF aliases = <<>> THEN <<>>
    ELSE LET e == Head(aliases)
         IN  <<[key |-> _canon(e.canon), val |-> e.canon]>>
                \o [j \in 1..Len(e.alts) |-> [key |-> _canon(e.alts[j]), val |-> e.canon]]
                \o RevAssignments(Tail(aliases))

\* mutant: an alternate maps to its canonical name and the canonical name to its
\* first alternate
RevGet_cross(k, default) ==
    LET asg == RevAssignments(player_aliases)
        hits == {j \in 1..Len(asg) : asg[j].key = k}
        entry == {j \in 1..Len(player_aliases) : _canon(player_aliases[j].canon) = k}
    IN  IF entry # {} THEN player_aliases[CHOOSE j \in entry : TRUE].alts[1]
        ELSE IF hits = {} THEN default
        ELSE asg[CHOOSE j \in hits : \A i \in hits : i <= j].val

\* rev.get(k, default): the last assignment to key k wins
RevGet(k, default) ==
    LET asg == RevAssignments(player_aliases)
        hits == {j \in 1..Len(asg) : asg[j].key = k}
    IN  IF hits = {} THEN default
        ELSE asg[CHOOSE j \in hits : \A i \in hits : i <= j].val

RECURSIVE ResolveLoop(_, _, _)
\* the for-loop of _resolve_players over the remaining names
ResolveLoop(names, out, seen) ==
    IF names = <<>> THEN out
    ELSE LET n == Head(names)
             canon == RevGet(_canon(n), n)
             ck == _canon(canon)
         IN  IF ck \notin seen
             THEN ResolveLoop(Tail(names), Append(out, canon), seen \cup {ck})
             ELSE ResolveLoop(Tail(names), out, seen)

RECURSIVE KeepAllLoop(_, _)
KeepAllLoop(names, out) ==
    IF names = <<>> THEN out
    ELSE KeepAllLoop(Tail(names), Append(out, RevGet(_canon(Head(names)), Head(names))))

\* mutant: no de-duplication
_resolve_players_keepall(names) == KeepAllLoop(names, <<>>)

\* _resolve_players(names, MANIFEST)
_resolve_players(names) == IF names = <<>> THEN <<>> ELSE ResolveLoop(names, <<>>, {})

\* the names a plan may carry
PlayerNamePool ==
    {"Steph", " Stephen  Curry ", "stephen curry", "KD", "kevin durant", "LeBron James",
     "lebron  james", "Luka", "curry"}

(***************************************************************************)
(* A question text is a sequence of words separated by single blanks. What *)
(* the code reads off a word (lower(), whether the pattern \b(20\d{2})\b   *)
(* matches it, the integer it spells) is tabulated on the words in use.    *)
(* A season label "YYYY-YY" is kept as its start year and its two trailing *)
(* digits.                                                                 *)
(***************************************************************************)
WordPool == {"last", "Last", "this", "next", "year", "yearly", "2026", "1999", "2099", "x2026", "in"}

\* w.lower()
WordLower(w) == IF w = "Last" THEN "last" ELSE w

\* the label "YYYY-YY"
SeasonLabel(y, d1, d2) == [start |-> y, tail |-> <<d1, d2>>]
\* None
NoSeason == [start |-> 0, tail |-> <<>>]

\* MANIFEST["seasons"]["phrase_map"], in the dict's order; a key is a pair of words
phrase_map ==
    << [k |-> <<"last", "year">>, v |-> SeasonLabel(2024, 2, 5)],
       [k |-> <<"this", "year">>, v |-> SeasonLabel(2025, 2, 6)],
       [k |-> <<"next", "year">>, v |-> SeasonLabel(2026, 2, 7)] >>

\* w.startswith(p) on the lower-case words in use
WordStartsWith(w, p) == w = p \/ (w = "yearly" /\ p = "year")

\* k in t: the two-word key is a substring of the text when some word ends with the
\* key's first word and the next word starts with its second; no word in use ends
\* with a key's first word other than that word itself
PhraseIn(k, t) ==
    \E i \in 1..(Len(t) - 1) : t[i] = k[1] /\ WordStartsWith(t[i + 1], k[2])

\* the words that \b(20\d{2})\b matches, with int(m.group(1))
Year20 == [w \in {"2026", "2099"} |-> IF w = "2026" THEN 2026 ELSE 2099]

\* str(n).zfill(2) for 0 <= n < 100, as its two digits
Zfill2(n) == <<n \div 10, n % 10>>

\* mutant: the end year is not reduced mod 100
FormatSeason_nomod(y) == [start |-> y, tail |-> Zfill2((y + 1) % 1000)]

\* f"{y}-{str((y+1)%100).zfill(2)}"
FormatSeason(y) == [start |-> y, tail |-> Zfill2((y + 1) % 100)]

\* _resolve_season_from_text(text, MANIFEST)
_resolve_season_from_text(text) ==
    LET t == [i \in 1..Len(text) |-> WordLower(text[i])]
        hitsP == {j \in 1..Len(phrase_map) : PhraseIn(phrase_map[j].k, t)}
        hitsY == {i \in 1..Len(t) : t[i] \in DOMAIN Year20}
    IN  IF hitsP # {}
        THEN phrase_map[CHOOSE j \in hitsP : \A i \in hitsP : j <= i].v
        ELSE IF hitsY # {}
        THEN FormatSeason(Year20[t[CHOOSE i \in hitsY : \A j \in hitsY : i <= j]])
        ELSE NoSeason

NoPlan == [fn |-> None]

\* plan["entities"]["players"] = _resolve_players(..., MANIFEST)
ResolvePlayersCall ==
    /\ planner = NoPlan
    /\ \E names \in SeqsUpTo(PlayerNamePool, MaxPlayers) :
          planner' = [fn |-> "resolve_players", input |-> names,
                      output |-> _resolve_players(names)]
    /\ UNCHANGED <<pipeVars, call, render, storeVars, pick>>

\* _resolve_season_from_text(query, MANIFEST)
ResolveSeasonCall ==
    /\ planner = NoPlan
    /\ \E text \in SeqsUpTo(WordPool, MaxWords) :
          planner' = [fn |-> "resolve_season", input |-> text,
                      output |-> _resolve_season_from_text(text)]
    /\ UNCHANGED <<pipeVars, call, render, storeVars, pick>>

PlannerReturn ==
    /\ planner # NoPlan
    /\ planner' = NoPlan
    /\ UNCHANGED <<pipeVars, call, render, storeVars, pick>>

PlannerNext ==
    \/ ResolvePlayersCall
    \/ ResolveSeasonCall
    \/ PlannerReturn

PlannerSpec == Init /\ [][PlannerNext]_vars

(***************************************************************************)
(* Rendering: _to_markdown / _markdown of the five builders                *)
(*                                                                         *)
(* A string is kept as the sequence of its lines (what split("\n") gives), *)
(* each line a sequence of text pieces; a cell is what str(r[h]) returns.  *)
(***************************************************************************)
\* most rows handed to a renderer
MaxRows == 2

\* a one-line string
Lit(x) == << <<x>> >>

\* a + b
Concat(a, b) ==
    SubSeq(a, 1, Len(a) - 1) \o << a[Len(a)] \o b[1] >> \o SubSeq(b, 2, Len(b))

RECURSIVE JoinText(_, _)
\* sep.join(parts), for a non-empty list of strings
JoinText(sep, parts) ==
    IF Len(parts) = 1 THEN parts[1]
    ELSE Concat(Concat(parts[1], Lit(sep)), JoinText(sep, Tail(parts)))

\* "| " + " | ".join(cells) + " |"
TableLine(cells) == Concat(Concat(Lit("| "), JoinText(" | ", cells)), Lit(" |"))

\* the fixed text returned for an empty row list
NoResultsMarker ==
    [b \in {"player_stats", "team_stats", "player_contracts", "team_capsheets", "team_picks"} |->
        CASE b = "team_stats" -> "_No team stat results._"
          [] b = "player_contracts" -> "_No contract results._"
          [] OTHER -> "_No results._"]

\* mutant: no separator line under the header
_to_markdown_nosep(b, headers, rows) ==
    IF rows = <<>> THEN Lit(NoResultsMarker[b])
    ELSE Flatten(<< TableLine([j \in 1..Len(headers) |-> Lit(headers[j])]) >>
                 \o [r \in 1..Len(rows) |-> TableLine(rows[r])])

\* _to_markdown(rows) of builder b; headers = list(rows[0].keys()), a row is the
\* list of str(r[h]) over the headers; "\n".join(lines) puts each entry on new lines
_to_markdown(b, headers, rows) ==
    IF rows = <<>> THEN Lit(NoResultsMarker[b])
    ELSE Flatten(<< TableLine([j \in 1..Len(headers) |-> Lit(headers[j])]),
                    TableLine([j \in 1..Len(headers) |-> Lit("---")]) >>
                 \o [r \in 1..Len(rows) |-> TableLine(rows[r])])

\* column lists a cursor may describe
HeaderChoices == { <<"value">>, <<"team", "note">> }

\* str() of a cell: a team name, a missing value, and a two-line note
CellPool == { Lit("GSW"), Lit("None"), << <<"Player">>, <<"Option">> >> }

NoRender == [builder |-> None]

\* return _to_markdown(rows) at the end of a builder's run function
RenderCall ==
    /\ render = NoRender
    /\ \E b \in DOMAIN NoResultsMarker, headers \in HeaderChoices :
         \E rows \in SeqsUpTo([1..Len(headers) -> CellPool], MaxRows) :
            render' = [builder |-> b, headers |-> headers, rows |-> rows,
                       out |-> _to_markdown(b, headers, rows)]
    /\ UNCHANGED <<pipeVars, call, planner, storeVars, pick>>

RenderReturn ==
    /\ render # NoRender
    /\ render' = NoRender
    /\ UNCHANGED <<pipeVars, call, planner, storeVars, pick>>

RenderNext ==
    \/ RenderCall
    \/ RenderReturn

RenderSpec == Init /\ [][RenderNext]_vars

(***************************************************************************)
(* Module-level connection handle and schema cache, under concurrent       *)
(* requests: _con(), _schema_cols() / _cols(), _execute() of               *)
(* player_contracts.py, team_stats.py and team_capsheets.py. The three     *)
(* modules use the same code; none takes a lock. One step is one read or   *)
(* write of a module global, or the start or end of a query execution.     *)
(***************************************************************************)
Threads == 1..NThreads

\* the column list a probe reads back
ProbedCols == "cols"

SetThread(t, r) == [threads EXCEPT ![t] = r]

\* a request for dataset d starts on an idle thread; its builder first looks up the schema
BeginRequest ==
    \E t \in Threads, d \in StoreDatasets :
        /\ threads[t].pc = "idle"
        /\ threads' = SetThread(t, [pc |-> "schema_check", ds |-> d, con |-> 0, phase |-> "lookup"])
        /\ UNCHANGED <<schema_cache, con_cache, probes, created>>
        /\ UNCHANGED <<pipeVars, call, planner, render, pick>>

\* _schema_cols(): if _SCHEMA_COLS is None
SchemaCheck ==
    \E t \in Threads :
        /\ threads[t].pc = "schema_check"
        /\ threads' = SetThread(t, [threads[t] EXCEPT
                          !.pc = "con_check",
                          !.phase = IF schema_cache[threads[t].ds] = None THEN "probe" ELSE "exec"])
        /\ UNCHANGED <<schema_cache, con_cache, probes, created>>
        /\ UNCHANGED <<pipeVars, call, planner, render, pick>>

\* _con(): if _con_cache is None
ConCheck ==
    \E t \in Threads :
        /\ threads[t].pc = "con_check"
        /\ threads' = SetThread(t, [threads[t] EXCEPT
                          !.pc = IF con_cache[threads[t].ds] = 0 THEN "con_create" ELSE "con_return"])
        /\ UNCHANGED <<schema_cache, con_cache, probes, created>>
        /\ UNCHANGED <<pipeVars, call, planner, render, pick>>

\* _con(): _con_cache = duckdb.connect(database=":memory:")
ConCreate ==
    \E t \in Threads :
        /\ threads[t].pc = "con_create"
        /\ created' = [created EXCEPT ![threads[t].ds] = @ + 1]
        /\ con_cache' = [con_cache EXCEPT ![threads[t].ds] = created[threads[t].ds] + 1]
        /\ threads' = SetThread(t, [threads[t] EXCEPT !.pc = "con_return"])
        /\ UNCHANGED <<schema_cache, probes>>
        /\ UNCHANGED <<pipeVars, call, planner, render, pick>>

\* _con(): return _con_cache
ConReturn ==
    \E t \in Threads :
        /\ threads[t].pc = "con_return"
        /\ threads' = SetThread(t, [threads[t] EXCEPT !.pc = "have_con",
                                                    !.con = con_cache[threads[t].ds]])
        /\ UNCHANGED <<schema_cache, con_cache, probes, created>>
        /\ UNCHANGED <<pipeVars, call, planner, render, pick>>

\* _schema_cols(): _con().execute("SELECT * FROM read_parquet(...) LIMIT 1") starts
ProbeStart ==
    \E t \in Threads :
        /\ threads[t].pc = "have_con"
        /\ threads[t].phase = "probe"
        /\ probes' = [probes EXCEPT ![threads[t].ds] = @ + 1]
        /\ threads' = SetThread(t, [threads[t] EXCEPT !.pc = "probing"])
        /\ UNCHANGED <<schema_cache, con_cache, created>>
        /\ UNCHANGED <<pipeVars, call, planner, render, pick>>

\* _schema_cols(): the probe returns; _SCHEMA_COLS = [d[0] for d in cur.description];
\* the builder goes on to _execute
ProbeEnd ==
    \E t \in Threads :
        /\ threads[t].pc = "probing"
        /\ schema_cache' = [schema_cache EXCEPT ![threads[t].ds] = ProbedCols]
        /\ threads' = SetThread(t, [threads[t] EXCEPT !.pc = "con_check", !.phase = "exec",
                                                    !.con = 0])
        /\ UNCHANGED <<con_cache, probes, created>>
        /\ UNCHANGED <<pipeVars, call, planner, render, pick>>

\* _execute(): _con().execute(sql, params) starts
ExecStart ==
    \E t \in Threads :
        /\ threads[t].pc = "have_con"
        /\ threads[t].phase = "exec"
        /\ threads' = SetThread(t, [threads[t] EXCEPT !.pc = "executing"])
        /\ UNCHANGED <<schema_cache, con_cache, probes, created>>
        /\ UNCHANGED <<pipeVars, call, planner, render, pick>>

\* _execute(): rows fetched, the request returns
ExecEnd ==
    \E t \in Threads :
        /\ threads[t].pc = "executing"
        /\ threads' = SetThread(t, [pc |-> "idle", ds |-> None, con |-> 0, phase |-> "lookup"])
        /\ UNCHANGED <<schema_cache, con_cache, probes, created>>
        /\ UNCHANGED <<pipeVars, call, planner, render, pick>>

StoreNext ==
    \/ BeginRequest
    \/ SchemaCheck
    \/ ConCheck
    \/ ConCreate
    \/ ConReturn
    \/ ProbeStart
    \/ ProbeEnd
    \/ ExecStart
    \/ ExecEnd

StoreSpec == Init /\ [][StoreNext]_vars

(***************************************************************************)
(* team_capsheets._pick_cap_column over the schema the store reports.      *)
(* _cols() reads the column list off the parquet file, so the cap columns  *)
(* present are an input; _pick_cap_column above is its value at the        *)
(* manifest's schema.                                                      *)
(***************************************************************************)
\* schemas: team plus any of the manifest's cap columns
CapSchemas == {{"team"} \cup cs : cs \in SUBSET Range(CAP_cap_cols)}
PickSeasons == SeasonLabels \cup {"2024-25"}
PickMetrics == {None, "cap", "cap_2027_28", "Cap_Space", "bogus"}

\* [c for c in cols if c.startswith("cap_")]
CapColsOf(cols) == cols \cap Range(CAP_cap_cols)

\* mutant: among equidistant columns the later start year sorts first
SortedFirst_later(caps, target) ==
    {c \in caps :
        \A d \in caps :
            \/ Abs(CapColYear(c) - target) < Abs(CapColYear(d) - target)
            \/ /\ Abs(CapColYear(c) - target) = Abs(CapColYear(d) - target)
               /\ CapColYear(c) >= CapColYear(d)}

\* by_year.sort(); by_year[0][2]: the columns whose (distance, year, name) tuple is
\* least in the tuple order
SortedFirst(caps, target) ==
    {c \in caps :
        \A d \in caps :
            \/ Abs(CapColYear(c) - target) < Abs(CapColYear(d) - target)
            \/ /\ Abs(CapColYear(c) - target) = Abs(CapColYear(d) - target)
               /\ CapColYear(c) <= CapColYear(d)}

\* cap_cols[-1] of the sorted cap columns
LastCapCol(caps) == {c \in caps : \A d \in caps : CapColYear(d) <= CapColYear(c)}

\* _pick_cap_column with cols = the schema: the columns it may return; empty when
\* it raises ValueError
PickCapColumnIn(cols, season, metric) ==
    IF TruthyS(metric) /\ metric \in cols THEN {metric}
    ELSE LET base == IF TruthyS(metric) THEN LowerMetric(metric) ELSE "cap"
         IN  IF base \in _CAP_SYNONYMS
             THEN IF TruthyS(season) /\ _season_to_col(season) \in cols
                  THEN {_season_to_col(season)}
                  ELSE IF CapColsOf(cols) # {}
                       THEN IF TruthyS(season)
                            THEN SortedFirst(CapColsOf(cols), SeasonStartYear(season))
                            ELSE LastCapCol(CapColsOf(cols))
                       ELSE {}
             ELSE {}

NoPick == [fn |-> "<none>"]

\* _pick_cap_column(season, metric) returns a column
PickColumn ==
    /\ pick = NoPick
    /\ \E cols \in CapSchemas, season \in PickSeasons, metric \in PickMetrics :
          \E c \in PickCapColumnIn(cols, season, metric) :
             pick' = [fn |-> "_pick_cap_column", cols |-> cols, season |-> season,
                      metric |-> metric, raised |-> FALSE, col |-> c]
    /\ UNCHANGED <<pipeVars, call, planner, render, storeVars>>

\* _pick_cap_column(season, metric) raises ValueError
PickRaise ==
    /\ pick = NoPick
    /\ \E cols \in CapSchemas, season \in PickSeasons, metric \in PickMetrics :
          /\ PickCapColumnIn(cols, season, metric) = {}
          /\ pick' = [fn |-> "_pick_cap_column", cols |-> cols, season |-> season,
                      metric |-> metric, raised |-> TRUE, col |-> None]
    /\ UNCHANGED <<pipeVars, call, planner, render, storeVars>>

PickReturn ==
    /\ pick # NoPick
    /\ pick' = NoPick
    /\ UNCHANGED <<pipeVars, call, planner, render, storeVars>>

PickNext ==
    \/ PickColumn
    \/ PickRaise
    \/ PickReturn

PickSpec == Init /\ [][PickNext]_vars

(***************************************************************************)
(* Claims about the builders                                               *)
(***************************************************************************)
\* C6: in every builder, every literal value derived from the arguments (season,
\* player and team names, years, round, filter values, the result cap) is passed as
\* a positional parameter and none is interpolated into the query text: a built
\* query holds only fixed text, placeholders and identifiers, and a cap that limits
\* the query is among the parameters.
C6_LiteralsAreParameters ==
    (call # NoCall /\ call.built) =>
        /\ \A j \in 1..Len(call.sql) : call.sql[j].kind \in {"sql", "qmark", "ident"}
        /\ \A j \in 1..Len(call.sql) :
              (j > 1 /\ call.sql[j - 1].kind = "sql" /\ call.sql[j - 1].text = "LIMIT")
                  => call.sql[j] = Q

\* C7: in each of the five builders a verb outside {max, min, sum, avg, count,
\* median, p1..p99} is rejected with a validation error when the arguments are
\* validated; no query is built and none is executed.
C7_VerbOutsideEnumerationRejected ==
    (call # NoCall /\ ~InEnumeration(call.args.agg)) =>
        /\ call.status = "ValidationError"
        /\ ~call.built
        /\ ~call.executed

\* the tokens of a query with the interpolated column names blanked
RECURSIVE Blanked(_)
Blanked(sql) ==
    IF sql = <<>> THEN <<>>
    ELSE <<IF Head(sql).kind \in {"ident", "str"} THEN Tok(Head(sql).kind, "_", 0) ELSE Head(sql)>>
            \o Blanked(Tail(sql))

QMarks(sql) == Cardinality({j \in 1..Len(sql) : sql[j] = Q})

\* filter entries that become a clause: a value other than None under a key with no
\* suffix or a recognised one
EffectiveFilters(f) ==
    Cardinality({j \in 1..Len(f) :
        f[j].val # NoneV /\ f[j].key.suf \in {None, "gte", "lte", "gt", "lt", "eq", "ne"}})

\* C8: in the contracts and cap-sheet builders the season contributes no clause to
\* the WHERE text and no entry to the parameter list: the query has one placeholder
\* and one parameter per player, team and effective filter, names no season
\* column, binds no season value, and apart from the column names read it is the
\* query built from the same arguments without a season.
C8_SeasonNeverFilters ==
    (call # NoCall /\ call.builder \in {"player_contracts", "team_capsheets"}) =>
        LET a == call.args
            players == IF call.builder = "player_contracts" THEN a.players ELSE <<>>
            other == IF call.builder = "player_contracts"
                     THEN run_contracts_agg([a EXCEPT !.season = None])
                     ELSE run_team_capsheets([a EXCEPT !.season = None])
        IN  /\ other.status = call.status
            /\ call.built =>
                 /\ \A j \in 1..Len(call.sql) :
                       call.sql[j] \notin {S("season ="), Id("season")}
                 /\ \A j \in 1..Len(call.params) : call.params[j] # StrV(a.season)
                 /\ Len(call.params) = Len(players) + Len(a.teams) + EffectiveFilters(a.filters)
                 /\ QMarks(call.sql) = Len(call.params)
                 /\ Blanked(call.sql) = Blanked(other.sql)
                 /\ call.params = other.params

C8_Witness ==
    /\ call # NoCall
    /\ call.builder = "player_contracts"
    /\ call.built
    /\ call.args.season = "2026-27"
    /\ call.args.metric = "salary"
    /\ Len(call.args.players) = 2
    /\ call.args.teams = <<"Boston Celtics">>
    /\ call.args.filters = <<F_g_gte, F_pos>>
    /\ Len(call.params) = 5
    /\ \E j \in 1..Len(call.sql) : call.sql[j] = Id("salary_2026_27")

\* fixed query text that counts rows
CountsRows(sql) ==
    \E j \in 1..Len(sql) :
        sql[j].kind = "sql" /\
        sql[j].text \in {"COUNT(*)", "SELECT COUNT(*) AS row_count",
                         "SELECT COUNT(*) AS row_count, SUM(g) AS games_played",
                         ", COUNT(*) AS value, SUM(g) AS games_played",
                         "SELECT team, COUNT(*) AS value", "SELECT COUNT(*) AS value",
                         "SELECT pick_year AS year, COUNT(*) AS value",
                         "SELECT pick_round AS round, COUNT(*) AS value"}

\* two outcomes agree on acceptance, and when accepted both count rows
SameCount(r1, r2) ==
    /\ r1.status = r2.status
    /\ r1.built => CountsRows(r1.sql) /\ CountsRows(r2.sql)

\* C9: with verb "count" every builder counts matching rows whatever the metric:
\* two argument objects that differ only in metric/metrics are both accepted with
\* a row-count aggregate or both rejected.
C9_CountIgnoresMetric ==
    (call # NoCall /\ Lower(call.args.agg) = "count") =>
        LET a == call.args
        IN  CASE call.builder = "player_stats" ->
                    \A mm \in MetricChoices(PS_MetricPool) :
                        SameCount(call, run_player_stats_op([a EXCEPT !.mm = mm]))
              [] call.builder = "team_stats" ->
                    \A mm \in MetricChoices(TS_MetricPool) :
                        SameCount(call, run_team_stats_op([a EXCEPT !.mm = mm]))
              [] call.builder = "player_contracts" ->
                    \A m \in {None, "salary", "salary_2026_27", "total_guaranteed", "bogus"} :
                        SameCount(call, run_contracts_agg([a EXCEPT !.metric = m]))
              [] call.builder = "team_capsheets" ->
                    \A m \in {None, "cap", "cap_2027_28", "Cap_Space", "bogus"} :
                        SameCount(call, run_team_capsheets([a EXCEPT !.metric = m]))
              [] call.builder = "team_picks" -> SameCount(call, call)

\* the start year a salary_<YYYY>_<YY> column name carries; lexicographic order of
\* these names is the order of their start years
SalaryColYear(c) ==
    CASE c = "salary_2025_26" -> 2025 [] c = "salary_2026_27" -> 2026
      [] c = "salary_2027_28" -> 2027 [] c = "salary_2028_29" -> 2028
      [] c = "salary_2029_30" -> 2029 [] c = "salary_2030_31" -> 2030

SalaryColsInSchema ==
    {c \in Range(CT_schema_cols) :
        c \in {"salary_2025_26", "salary_2026_27", "salary_2027_28", "salary_2028_29",
               "salary_2029_30", "salary_2030_31"}}

\* the case of C11: generic metric, no season, no grouping, one player
C11_Case ==
    /\ call # NoCall
    /\ call.builder = "player_contracts"
    /\ call.args.metric = "salary"
    /\ call.args.season = None
    /\ call.args.group_by = "none"
    /\ Len(call.args.players) = 1
    /\ call.built

\* C11: for the contracts builder with metric "salary", no season, group_by "none"
\* and one player, the column aggregated is the lexicographically latest salary column
\* of the schema, and the query is a single ungrouped aggregate (no GROUP BY, no
\* ORDER BY, no LIMIT) selecting value, name, team and note, which yields one row.
C11_LatestSalarySingleRow ==
    C11_Case =>
        LET sql == call.sql
            n == IF call.args.agg \in {"count"} THEN 2 ELSE 5
        IN  /\ sql[1] = S("SELECT")
            /\ call.args.agg # "count" =>
                 /\ sql[2] = Id(Upper(call.args.agg))
                 /\ sql[4].kind = "ident"
                 /\ sql[4].text \in SalaryColsInSchema
                 /\ \A c \in SalaryColsInSchema : SalaryColYear(c) <= SalaryColYear(sql[4].text)
            /\ call.args.agg = "count" => sql[2] = S("COUNT(*)")
            /\ sql[n + 1] = S("AS value, first(name) AS name, first(team) AS team, first(note) AS note")
            /\ sql[n + 2] = CT_FROM
            /\ \A j \in 1..Len(sql) :
                  sql[j] \notin {S("GROUP BY"), S("ORDER BY value DESC"), S("LIMIT")}
            /\ \A j \in 2..Len(sql) : sql[j] # S("SELECT")

C11_Witness ==
    /\ C11_Case
    /\ call.args.agg = "max"
    /\ call.args.players = <<"Stephen Curry">>
    /\ call.args.k = IntV(5)
    /\ call.sql[4] = Id("salary_2030_31")
    /\ call.params = <<StrV("Stephen Curry")>>

Min(x, y) == IF x <= y THEN x ELSE y

\* what the store returns for a grouped team-stats query over n teams that all match
\* the WHERE clause: each GROUP BY team sub-query yields one row per team, UNION ALL
\* concatenates them, and a trailing LIMIT k keeps the first k rows of the whole
RowsReturned(sql, n) ==
    LET subs == Cardinality({j \in 1..Len(sql) : sql[j] = S("GROUP BY team")})
        last == sql[Len(sql)]
    IN  IF last.kind = "int" THEN Min(last.num, subs * n) ELSE subs * n

C12_Case ==
    /\ call # NoCall
    /\ call.builder = "team_stats"
    /\ call.built
    /\ call.args.mm = [metric |-> None, metrics |-> <<"pts", "ast">>]
    /\ Lower(call.args.agg) = "avg"
    /\ call.args.group_by = "team"
    /\ call.args.k = IntV(5)
    /\ call.args.teams = NoList
    /\ call.args.filters = <<>>

\* C12: team stats with metrics (pts, ast), agg avg, group_by team and k = 5 returns
\* min(5, number of teams) rows for each of the two metrics: 10 rows over 30 teams,
\* 6 rows over 3 teams.
C12_FiveRowsPerMetric ==
    C12_Case =>
        \A n \in {3, 30} : RowsReturned(call.sql, n) = 2 * Min(5, n)

\* the columns a built contracts or cap-sheet query reads as its metric: the
\* argument of the aggregate function, or the per-team value column
MetricColumnsRead(sql) ==
    {sql[j].text : j \in {i \in 2..Len(sql) :
        sql[i].kind = "ident" /\ sql[i - 1] \in {S("("), S("SELECT team,")}}}

\* C13: in the contracts and cap-sheet builders a metric that maps to no existing
\* column raises an error when the query is built: no query handed to the store
\* reads a metric column that the dataset's schema does not have.
C13_UnresolvedMetricNeverExecuted ==
    (call # NoCall /\ call.builder \in {"player_contracts", "team_capsheets"} /\ call.executed) =>
        MetricColumnsRead(call.sql) \subseteq
            (IF call.builder = "player_contracts" THEN Range(CT_schema_cols) ELSE Range(CAP_cols))

\* C20: in the player-stats and team-stats builders every query handed to the store
\* has exactly as many ? placeholders as the parameter list has entries, for every
\* combination of season, players, teams, filters, number of metrics and grouping.
C20_PlaceholdersMatchParams ==
    (call # NoCall /\ call.builder \in {"player_stats", "team_stats"} /\ call.executed) =>
        QMarks(call.sql) = Len(call.params)

\* the query groups its rows by the player column (name in the contracts table)
GroupedByPlayer(sql) ==
    \E j \in 1..(Len(sql) - 1) :
        sql[j] = S("GROUP BY") /\ sql[j + 1] \in {Id("player"), Id("name")}

\* C22: in every builder that accepts a players list (player stats, contracts), a
\* request with group_by "none" that names more than one player yields a query
\* grouped by player.
C22_SeveralPlayersGroupedByPlayer ==
    (call.builder \in {"player_stats", "player_contracts"} /\ call.built
        /\ call.args.group_by = "none" /\ Len(call.args.players) > 1)
      => GroupedByPlayer(call.sql)

\* the query orders its rows by the aggregate value, descending
OrdersByValueDesc(sql) ==
    \E j \in 1..Len(sql) :
        sql[j] \in {S("ORDER BY value DESC"), S("ORDER BY value DESC LIMIT"),
                    S(") ORDER BY value DESC LIMIT")}

\* C23: every grouped aggregate query (group_by other than "none") built by the
\* player-stats, team-stats and contracts builders orders its rows by the aggregate
\* value descending, whether or not a result cap k is given.
C23_GroupedOrderedByValue ==
    (call.builder \in {"player_stats", "team_stats", "player_contracts"} /\ call.built
        /\ call.args.group_by # "none")
      => OrdersByValueDesc(call.sql)

\* rows the store returns for a union of grouped sub-queries over n groups that all
\* match: one row per group and sub-query, cut by a trailing LIMIT
UnionRows(sql, n) ==
    LET subs == Cardinality({j \in 1..Len(sql) : sql[j] = S("UNION ALL")}) + 1
        last == sql[Len(sql)]
    IN  IF last.kind = "int" THEN Min(last.num, subs * n) ELSE subs * n

\* sub-queries of the union that carry the tag of metric m
TaggedSubs(sql, m) ==
    {j \in 1..(Len(sql) - 1) :
        sql[j] = StrLit(m)
        /\ sql[j + 1] \in {S("AS metric"), S("AS metric, SUM(g) AS games_played")}}

\* the query is the union of one tagged sub-query per distinct metric, wrapped once
\* in an outer ORDER BY value DESC LIMIT k; nothing inside the union is capped
CappedUnion(sql, ms, k) ==
    /\ sql[1] = S("SELECT * FROM (")
    /\ sql[Len(sql) - 1] = S(") ORDER BY value DESC LIMIT")
    /\ sql[Len(sql)] = IntLit(k)
    /\ Cardinality({j \in 1..Len(sql) : sql[j] = S("UNION ALL")}) = Cardinality(ms) - 1
    /\ Cardinality({j \in 1..Len(sql) : sql[j] = S("GROUP BY team")
                                          \/ sql[j] = S("GROUP BY")}) = Cardinality(ms)
    /\ \A m \in ms : Cardinality(TaggedSubs(sql, m)) = 1
    /\ \A j \in 2..(Len(sql) - 2) :
          /\ sql[j].kind # "int"
          /\ sql[j] \notin {S("LIMIT"), S("ORDER BY value DESC LIMIT"),
                            S(") ORDER BY value DESC LIMIT")}
    /\ \A n \in {3, 30} : UnionRows(sql, n) <= k

\* a player-stats or team-stats call with several distinct metrics and grouping
C24_Case ==
    /\ call.builder \in {"player_stats", "team_stats"}
    /\ call.built
    /\ Cardinality(Range(call.args.mm.metrics)) > 1
    /\ call.args.group_by # "none"

\* C24: several metrics with grouping and a cap k, 0 included, give the union of one
\* tagged sub-query per distinct metric, capped once, after ordering, on the outer
\* union: at most k rows in all, no cap inside a sub-query.
C24_UnionCappedOnce ==
    (C24_Case /\ call.args.k # NoneV)
        => CappedUnion(call.sql, Range(call.args.mm.metrics), call.args.k.n)

\* C24, amended: the same for a cap k other than 0; a cap of 0 is read as no cap
\* and the bare union is returned.
C24_UnionCappedOnceNonZero ==
    (C24_Case /\ call.args.k # NoneV) =>
        IF call.args.k.n # 0
        THEN CappedUnion(call.sql, Range(call.args.mm.metrics), call.args.k.n)
        ELSE /\ call.sql[1] # S("SELECT * FROM (")
             /\ call.sql[Len(call.sql)].kind # "int"

C24_Witness ==
    /\ C24_Case
    /\ call.builder = "player_stats"
    /\ call.args.mm.metrics = <<"pts", "ast", "pts">>
    /\ call.args.k = IntV(5)
    /\ UnionRows(call.sql, 30) = 5

\* columns of cols whose start year (read by year) is nearest to target
NearestCols(cols, year(_), target) ==
    {c \in Range(cols) :
        \A d \in Range(cols) : Abs(year(c) - target) <= Abs(year(d) - target)}

\* the request names the generic metric and a season that has no column of its own
C25_ContractsCase ==
    /\ call.builder = "player_contracts"
    /\ call.built
    /\ call.args.metric \in {None, "salary"}
    /\ TruthyS(call.args.season)
    /\ _season_to_salary_col(call.args.season) \notin Range(CT_schema_cols)
    /\ Lower(call.args.agg) # "count"

C25_CapsheetsCase ==
    /\ call.builder = "team_capsheets"
    /\ call.built
    /\ call.args.metric \in {None, "cap", "Cap_Space"}
    /\ TruthyS(call.args.season)
    /\ _season_to_col(call.args.season) \notin Range(CAP_cols)

\* C25: in the contracts and cap-sheet builders a generic metric with a season that
\* has no column resolves to an existing season-keyed column whose start year is at
\* the least absolute distance from the season's start year.
C25_NearestSeasonColumn ==
    /\ C25_ContractsCase =>
          MetricColumnsRead(call.sql) \subseteq
              NearestCols(CT_salary_cols, SalaryColYear, SeasonStartYear(call.args.season))
    /\ C25_CapsheetsCase =>
          MetricColumnsRead(call.sql) \subseteq
              NearestCols(CAP_cap_cols, CapColYear, SeasonStartYear(call.args.season))

\* a cap-column selection for a generic metric and a season that has no column in
\* the schema, which holds at least one cap column
C26_Case ==
    /\ pick # NoPick
    /\ ~pick.raised
    /\ pick.metric \in {None, "cap", "Cap_Space"}
    /\ TruthyS(pick.season)
    /\ _season_to_col(pick.season) \notin pick.cols

\* the cap columns of the schema at the least distance from the season's start year
C26_Nearest ==
    {c \in CapColsOf(pick.cols) :
        \A d \in CapColsOf(pick.cols) :
            Abs(CapColYear(c) - SeasonStartYear(pick.season))
                <= Abs(CapColYear(d) - SeasonStartYear(pick.season))}

\* C26: the nearest-season selection of the cap-sheet builder is deterministic: for
\* a schema and a season the column chosen is always the same one, namely the
\* nearest column, and of two equidistant columns the one with the earlier start
\* year.
C26_NearestDeterministic ==
    C26_Case =>
        /\ pick.col \in C26_Nearest
        /\ \A d \in C26_Nearest : CapColYear(pick.col) <= CapColYear(d)
        /\ PickCapColumnIn(pick.cols, pick.season, pick.metric) = {pick.col}

C26_Witness ==
    /\ C26_Case
    /\ pick.season = "2026-27"
    /\ {"cap_2025_26", "cap_2027_28"} \subseteq pick.cols
    /\ pick.col = "cap_2025_26"

\* the decorated label a dataset stores a bare team name under
IsBareTeam(b, t) == IF b = "team_stats" THEN ~EndsWithStar(t) ELSE ~HasPicksSuffix(t)
Decorated(b, t) == IF b = "team_stats" THEN AddStar(t) ELSE AddPicksSuffix(t)

\* the team filter at position j of the query holds exactly n placeholders
TeamFilterHolds(sql, j, n) ==
    /\ j + 2 * n <= Len(sql)
    /\ \A i \in 1..n : sql[j + 2 * i - 1] = Q
    /\ sql[j + 2 * n] = S(")")

\* C27: in the team-stats builder (trailing "*") and the draft-picks builder
\* (" Future NBA Draft Picks"), every bare team name is expanded: the parameters
\* hold both the bare and the decorated form, and the team filter has one
\* placeholder per expanded value.
C27_BareTeamsExpanded ==
    (call.builder \in {"team_stats", "team_picks"} /\ call.built /\ TruthyL(call.args.teams))
      => LET b == call.builder
             teams == call.args.teams
             bare == {j \in 1..Len(teams) : IsBareTeam(b, teams[j])}
         IN  /\ \A j \in bare :
                   /\ StrV(teams[j]) \in Range(call.params)
                   /\ StrV(Decorated(b, teams[j])) \in Range(call.params)
             /\ \E j \in 1..Len(call.sql) : call.sql[j] = S("team IN (")
             /\ \A j \in 1..Len(call.sql) :
                   call.sql[j] = S("team IN (")
                     => TeamFilterHolds(call.sql, j, Len(teams) + Cardinality(bare))

\* the outcome of the same call with the filter map f in place of its own
Rebuilt(c, f) ==
    CASE c.builder = "player_stats"     -> run_player_stats_op([c.args EXCEPT !.filters = f])
      [] c.builder = "team_stats"       -> run_team_stats_op([c.args EXCEPT !.filters = f])
      [] c.builder = "player_contracts" -> run_contracts_agg([c.args EXCEPT !.filters = f])

\* occurrences of the clause "col op ?" in a query
ClauseCount(sql, col, op) ==
    Cardinality({j \in 1..(Len(sql) - 2) :
        sql[j] = Id(col) /\ sql[j + 1] = S(op) /\ sql[j + 2] = Q})

\* C28: in the player-stats, team-stats and contracts builders a filter entry with
\* an unrecognised suffix changes nothing: the query text and the parameters are
\* those of the call without the entry; an entry with a recognised suffix (gte,
\* lte, gt, lt, eq, ne) and a value adds one clause "col op ?" to the WHERE text and
\* one parameter, the value.
C28_UnknownSuffixIgnored ==
    (call.builder \in {"player_stats", "team_stats", "player_contracts"} /\ call.built
        /\ Len(call.args.filters) = 1)
      => LET e == call.args.filters[1]
             base == Rebuilt(call, <<>>)
             wheres == Cardinality({j \in 1..Len(base.sql) : base.sql[j] = S("UNION ALL")}) + 1
         IN  /\ (e.key.suf \notin {None, "gte", "lte", "gt", "lt", "eq", "ne"})
                   => (call.sql = base.sql /\ call.params = base.params)
             /\ (e.key.suf \in {"gte", "lte", "gt", "lt", "eq", "ne"} /\ e.val # NoneV)
                   => /\ ClauseCount(call.sql, e.key.col, OpSymbol(e.key.suf)) = wheres
                      /\ Len(call.sql) = Len(base.sql) + wheres * 4
                             - (IF S("TRUE") \in Range(base.sql) THEN wheres * 2 ELSE 0)
                      /\ call.params = base.params \o <<e.val>>

\* the caller gave neither metric nor metrics
NoMetricGiven(c) ==
    IF c.builder = "player_contracts" THEN c.args.metric = None
    ELSE ~TruthyS(c.args.mm.metric) /\ ~TruthyL(c.args.mm.metrics)

\* C29: in the player-stats, team-stats and contracts builders a call that supplies
\* no metric at all is given the synthetic row-count metric and its query aggregates
\* with count, whatever verb was requested: the query counts rows and applies no
\* aggregate function to a column.
C29_NoMetricCountsRows ==
    (call.builder \in {"player_stats", "team_stats", "player_contracts"} /\ call.built
        /\ NoMetricGiven(call))
      => /\ CountsRows(call.sql)
         /\ \A j \in 2..Len(call.sql) :
               ~(call.sql[j].kind = "ident" /\ call.sql[j - 1] = S("("))

\* C30: every quantile expression in a built query carries the fraction N/100 of an
\* integer N with 1 <= N <= 99, strictly between 0 and 1, and a call whose verb is
\* pN with N outside 1..99 builds no query.
C30_QuantileFractionInRange ==
    (call # NoCall) =>
        /\ call.built =>
              \A j \in 1..Len(call.sql) :
                  call.sql[j].kind = "frac" => (1 <= call.sql[j].num /\ call.sql[j].num <= 99)
        /\ (StartsWithP(call.args.agg) /\ RestInt(call.args.agg) # NotInt
                /\ ~(1 <= RestInt(call.args.agg) /\ RestInt(call.args.agg) <= 99))
              => ~call.built

(***************************************************************************)
(* Claims about the planner helpers                                        *)
(***************************************************************************)
\* C14: _resolve_players is idempotent: applied to its own output (same alias table)
\* it returns that output unchanged and in the same order.
C14_ResolvePlayersIdempotent ==
    planner.fn = "resolve_players" => _resolve_players(planner.output) = planner.output

C14_Witness ==
    /\ planner.fn = "resolve_players"
    /\ planner.input = <<"Steph", "LeBron James", "curry">>
    /\ planner.output = <<"stephen curry", "LeBron James">>

\* the alias entries whose canonical name or one of whose alternates equals the name
\* after case and whitespace normalisation
MatchingEntries(n) ==
    {j \in 1..Len(player_aliases) :
        \/ _canon(n) = _canon(player_aliases[j].canon)
        \/ \E a \in 1..Len(player_aliases[j].alts) : _canon(n) = _canon(player_aliases[j].alts[a])}

\* the canonical name of a matching name, the name itself otherwise
CanonicalOf(n) ==
    IF MatchingEntries(n) = {} THEN n
    ELSE player_aliases[CHOOSE j \in MatchingEntries(n) : TRUE].canon

\* C15: _resolve_players returns, in order of first occurrence, one entry per distinct
\* canonical form: a matching name becomes its canonical name, an unmatched name is
\* returned as given, and a later name whose canonical form was seen is dropped.
C15_ResolvePlayersFirstOccurrence ==
    planner.fn = "resolve_players" =>
        LET names == planner.input
            out == planner.output
            kept == {j \in 1..Len(names) :
                        \A i \in 1..(j - 1) :
                            _canon(CanonicalOf(names[i])) # _canon(CanonicalOf(names[j]))}
        IN  /\ \A n \in Range(names) : Cardinality(MatchingEntries(n)) <= 1
            /\ Len(out) = Cardinality(kept)
            /\ \A j \in kept :
                  out[Cardinality({i \in kept : i <= j})] = CanonicalOf(names[j])

C15_Witness ==
    /\ planner.fn = "resolve_players"
    /\ planner.input = <<"lebron  james", " Stephen  Curry ", "LeBron James">>
    /\ planner.output = <<"lebron  james", "stephen curry">>

\* the words that spell a bare four-digit year
BareYear == [w \in {"2026", "1999", "2099"} |->
                CASE w = "2026" -> 2026 [] w = "1999" -> 1999 [] w = "2099" -> 2099]

\* the label Y-(Y+1 mod 100, two digits)
LabelOfYear(y) == [start |-> y, tail |-> <<((y + 1) % 100) \div 10, ((y + 1) % 100) % 10>>]

FirstPhraseLabel(t) ==
    LET hits == {j \in 1..Len(phrase_map) : PhraseIn(phrase_map[j].k, t)}
    IN  IF hits = {} THEN NoSeason
        ELSE phrase_map[CHOOSE j \in hits : \A i \in hits : j <= i].v

C17_RenderLineCount ==
    render # NoRender =>
        IF render.rows = <<>>
        THEN render.out = Lit(NoResultsMarker[render.builder]) /\ render.out # Lit("")
        ELSE Len(render.out) = Len(render.rows) + 2

RECURSIVE SumSeq(_)
SumSeq(q) == IF q = <<>> THEN 0 ELSE Head(q) + SumSeq(Tail(q))

\* line breaks inside the cells of the rows
CellBreaks(rows) ==
    SumSeq([r \in 1..Len(rows) |->
               SumSeq([c \in 1..Len(rows[r]) |-> Len(rows[r][c]) - 1])])

\* C17 amended: an empty row list renders as the builder's fixed non-empty marker;
\* n > 0 rows render as n + 2 newline-joined entries (header, separator, one entry per
\* row in input order), which are exactly n + 2 lines when no cell text holds a line
\* break and n + 2 plus the number of such breaks otherwise.
C17_RenderEntries ==
    render # NoRender =>
        IF render.rows = <<>>
        THEN render.out = Lit(NoResultsMarker[render.builder]) /\ render.out # Lit("")
        ELSE LET n == Len(render.rows)
                 out == render.out
             IN  /\ Len(out) = n + 2 + CellBreaks(render.rows)
                 /\ out[1] = TableLine([j \in 1..Len(render.headers) |-> Lit(render.headers[j])])[1]
                 /\ out[2] = TableLine([j \in 1..Len(render.headers) |-> Lit("---")])[1]
                 /\ CellBreaks(render.rows) = 0 =>
                       \A r \in 1..n : << out[r + 2] >> = TableLine(render.rows[r])

C17_Witness ==
    /\ render # NoRender
    /\ render.builder = "player_contracts"
    /\ render.headers = <<"team", "note">>
    /\ Len(render.rows) = 2
    /\ render.rows[1][1] = Lit("GSW")
    /\ render.rows[1][2] = << <<"Player">>, <<"Option">> >>
    /\ Len(render.out) = 5

(***************************************************************************)
(* Claims about the shared store state                                     *)
(***************************************************************************)
\* C18: for each dataset the schema probe runs at most once per process, also under
\* concurrent first lookups: never have two callers both seen the cache unset and
\* both gone on to probe.
C18_ProbeAtMostOnce ==
    \A d \in StoreDatasets :
        /\ probes[d] <= 1
        /\ Cardinality({t \in Threads : threads[t].ds = d /\ threads[t].phase = "probe"}) <= 1

\* C19: access to a dataset's shared connection handle is mutually exclusive (no two
\* query executions in progress on the same handle) and at most one handle per
\* dataset is ever created.
C19_HandleExclusive ==
    \A d \in StoreDatasets :
        /\ created[d] <= 1
        /\ \A t1, t2 \in Threads :
              (/\ t1 # t2
               /\ threads[t1].ds = d /\ threads[t2].ds = d
               /\ threads[t1].pc \in {"probing", "executing"}
               /\ threads[t2].pc \in {"probing", "executing"})
                  => threads[t1].con # threads[t2].con

(***************************************************************************)
(* Claims about the dispatcher and the router                              *)
(***************************************************************************)
\* the name the dispatcher looks up for a step: its alias target, else itself
ResolvedName(step) ==
    IF step.tool_name \in DOMAIN ALIAS_MAP THEN ALIAS_MAP[step.tool_name] ELSE step.tool_name

IsUnsupported(step) == step.op # "tool_call"
IsUnknown(step) == step.op = "tool_call" /\ ResolvedName(step) \notin Range(ALL_TOOLS)
IsCallable(step) == step.op = "tool_call" /\ ResolvedName(step) \in Range(ALL_TOOLS)

\* rec is the record that belongs to step
RecordOf(step, rec) ==
    IF IsUnsupported(step) THEN rec.keys = {"error"} /\ rec.error[2] = step.op
    ELSE IF IsUnknown(step) THEN rec.keys = {"error"} /\ rec.error[2] = step.tool_name
    ELSE rec.keys = {"tool", "output"} /\ rec.tool = ResolvedName(step)

\* C1: execute_ops returns exactly one result record per operation, in the order of
\* the operations, whatever mix of unsupported op kinds, unknown tool names and
\* failing tools the list holds: while it runs the results are the records of the
\* operations finished so far, it never ends by raising, and when it returns there
\* are as many records as operations.
C1_OneRecordPerOp ==
    /\ pc # "raised"
    /\ pc \in {"running", "done"} =>
          /\ Len(results) = done_n
          /\ \A j \in 1..Len(results) : RecordOf(ops[j], results[j])
    /\ pc = "done" => Len(results) = Len(ops)

C1_Witness ==
    /\ pc = "done"
    /\ Len(ops) = 3
    /\ \E j \in 1..3 : IsUnsupported(ops[j])
    /\ \E j \in 1..3 : IsUnknown(ops[j])
    /\ \E j \in 1..3 : IsCallable(ops[j]) /\ results[j].output.kind = "error"

\* C2: an exception raised by a tool does not leave execute_ops; the tool is
\* invoked once for that operation (no retry), the operation's record carries the
\* exception's type and message as an error, and the operations after it are
\* processed.
C2_ExceptionBecomesRecord ==
    /\ pc # "raised"
    /\ \A a, b \in 1..Len(invocations) :
          invocations[a].pos = invocations[b].pos => a = b
    /\ \A a \in 1..Len(invocations) :
          LET inv == invocations[a]
          IN  inv.outcome.raised =>
                /\ inv.pos <= Len(results)
                /\ results[inv.pos].keys = {"tool", "output"}
                /\ results[inv.pos].output =
                      [kind |-> "error", type |-> inv.outcome.type, msg |-> inv.outcome.msg]
    /\ pc = "done" => Len(results) = Len(ops)

C2_Witness ==
    /\ pc = "done"
    /\ Len(ops) = 3
    /\ Len(invocations) = 3
    /\ invocations[1].outcome.raised
    /\ invocations[1].outcome.type = "IOException"
    /\ ~invocations[2].outcome.raised
    /\ invocations[3].outcome.type = "ValidationError"

\* C3: an operation whose kind is not tool_call, or whose alias-resolved name is
\* not in the registry, causes no tool invocation and yields an error-only record
\* (unsupported op type / unknown tool); processing goes on with the next
\* operation, and only registered tools are ever invoked.
C3_OnlyRegisteredToolsRun ==
    /\ \A a \in 1..Len(invocations) :
          /\ invocations[a].tool \in Range(ALL_TOOLS)
          /\ IsCallable(ops[invocations[a].pos])
    /\ pc \in {"running", "done"} =>
          \A j \in 1..done_n :
             /\ j <= Len(results)
             /\ IsUnsupported(ops[j]) =>
                   results[j] = ErrorRecord("Unsupported op type", ops[j].op)
             /\ IsUnknown(ops[j]) =>
                   results[j] = ErrorRecord("Unknown tool", ops[j].tool_name)
    /\ pc = "done" => done_n = Len(ops)

C3_Witness ==
    /\ pc = "done"
    /\ Len(ops) = 3
    /\ IsUnsupported(ops[1])
    /\ IsUnknown(ops[2]) /\ ops[2].tool_name = "player_stats_tool"
    /\ IsCallable(ops[3])
    /\ Len(invocations) = 1

\* C4: every tool_name in the list RouterAgent.invoke returns is in the allowlist
\* derived from the registry, for every dataset and every proposed name.
C4_RoutedNamesAllowed ==
    (from_router /\ pc = "routed") =>
        \A j \in 1..Len(ops) : ops[j].tool_name \in Range(ALL_TOOLS)

\* the name the post-check substitutes for a rejected one
RewriteTarget(dataset) ==
    IF dataset \in DOMAIN dataset_to_tool THEN dataset_to_tool[dataset]
    ELSE "player_stats_aggregate_tool"

WasRewritten(j) == proposed[j].tool_name \notin Range(ALL_TOOLS)

\* C5 as stated: a proposed name outside the allowlist is rewritten to the
\* dataset-suggested tool (or the fixed default), and the dispatcher resolves the
\* rewritten name to a registered tool and emits a {tool, output} record for it.
C5_RewrittenOpGetsToolRecord ==
    (from_router /\ pc \in {"running", "done"}) =>
        \A j \in 1..Len(results) :
            WasRewritten(j) =>
                /\ ops[j].tool_name = RewriteTarget(plan_dataset)
                /\ results[j].keys = {"tool", "output"}
                /\ results[j].tool \in Range(ALL_TOOLS)

\* C5 amended: the same for operations of kind tool_call; an operation of another
\* kind is rewritten too and gets the unsupported-op error record. In neither case
\* is the record an unknown-tool error.
C5_RewrittenToolCallGetsToolRecord ==
    (from_router /\ pc \in {"running", "done"}) =>
        \A j \in 1..Len(results) :
            WasRewritten(j) =>
                /\ ops[j].tool_name = RewriteTarget(plan_dataset)
                /\ ops[j].op = "tool_call" =>
                      /\ results[j].keys = {"tool", "output"}
                      /\ results[j].tool \in Range(ALL_TOOLS)
                /\ ops[j].op # "tool_call" =>
                      results[j] = ErrorRecord("Unsupported op type", ops[j].op)

C5_Witness ==
    /\ from_router
    /\ pc = "done"
    /\ plan_dataset = "player_contracts"
    /\ Len(results) = 2
    /\ proposed[1] = [op |-> "tool_call", tool_name |-> "drop_tables"]
    /\ ops[1].tool_name = "contracts_aggregate_tool"
    /\ results[1].tool = "contracts_aggregate"
    /\ proposed[2].tool_name = "player_stats_aggregate"

\* C10: RouterAgent.invoke never returns an empty operation list: an empty route
\* is rejected when the route object is built, and the dispatcher is never handed
\* an empty list by the router.
C10_RouterNeverReturnsEmpty ==
    from_router =>
        /\ pc \in {"routed", "running", "done", "raised"} => Len(ops) > 0
        /\ Len(proposed) = 0 => pc = "route_error"

C10_Witness ==
    /\ from_router
    /\ pc = "route_error"
    /\ proposed = <<>>


\* C21: alias redirection never makes a resolvable request fail: every processed
\* tool_call operation whose tool_name is itself a registered tool name has a tool
\* record (the tool was found and invoked), never an unknown-tool error.
C21_RegisteredNameIsInvoked ==
    pc \in {"running", "done"} =>
        \A j \in 1..done_n :
            (j <= Len(results) /\ ops[j].op = "tool_call"
                /\ ops[j].tool_name \in build_tool_index)
              => /\ results[j].keys = {"tool", "output"}
                 /\ \E a \in 1..Len(invocations) : invocations[a].pos = j
====
